---- MODULE Spec2Model ----
(***************************************************************************)
(* Model of the incremental narrative-stream parser and per-panel asset    *)
(* orchestrator: services/streaming_parser.py, services/                   *)
(* dialogue_extractor.py, services/panel_processor.py and                  *)
(* services/sequential_story_service.py.                                   *)
(*                                                                         *)
(* Text is a sequence of atoms.  An atom is a TLA+ string: one character   *)
(* ("a", ":", "\n") or a word that the regular expressions of the program  *)
(* treat as a unit ("PANEL", "dialogue", a piece of a template).  The      *)
(* Python length of a text is the sum of the lengths of its atoms.         *)
(***************************************************************************)
EXTENDS Integers, Sequences, FiniteSets, TLC

\* ------------------------------------------------------------------ text

RECURSIVE SumLen(_, _)
SumLen(t, i) ==
    IF i > Len(t) THEN 0 ELSE Len(t[i]) + SumLen(t, i + 1)

\* len(text) of Python
PyLen(t) == SumLen(t, 1)

\* the characters str.strip() removes, and \s of re
WS == {" ", "\n"}

DigitChars == {"0", "1", "2", "3", "4", "5", "6", "7", "8", "9"}

RECURSIVE LStrip(_)
LStrip(t) ==
    IF t # <<>> /\ Head(t) \in WS THEN LStrip(Tail(t)) ELSE t

RECURSIVE RStrip(_)
RStrip(t) ==
    IF t # <<>> /\ t[Len(t)] \in WS THEN RStrip(SubSeq(t, 1, Len(t) - 1)) ELSE t

\* str.strip()
Strip(t) == RStrip(LStrip(t))

\* whether s occurs in t at position p
LitAt(t, p, s) ==
    /\ p + Len(s) - 1 <= Len(t)
    /\ \A i \in 1..Len(s) : t[p + i - 1] = s[i]

\* the Python test `s in t`
Contains(t, s) == \E p \in 1..(Len(t) + 1) : LitAt(t, p, s)

DigitAtoms == <<"1", "2", "3", "4", "5", "6", "7", "8", "9">>

\* the decimal digits of n, as f"{n}" writes them (n < 100 in this model)
NumAtoms(n) ==
    IF n < 10 THEN <<DigitAtoms[n]>>
    ELSE <<DigitAtoms[n \div 10]>>
         \o (IF n % 10 = 0 THEN <<"0">> ELSE <<DigitAtoms[n % 10]>>)

\* ----------------------------------------------------- regular expressions
\* A pattern is a sequence of items: a literal, a repetition of a character
\* class (greedy or lazy, with a minimum and a maximum counted in
\* characters; max -1 is unbounded), and the two ends of the capture group.
\* MatchAt explores the alternatives in the order re's backtracking does.

Lit(s) == [k |-> "lit", s |-> s]

\* a literal of a pattern compiled with re.IGNORECASE
LitI(s) == [k |-> "liti", s |-> s]

\* the case folding of the words the patterns name
CaseFold(a) ==
    CASE a \in {"panel", "Panel"} -> "PANEL"
      [] a \in {"DIALOGUE", "Dialogue"} -> "dialogue"
      [] a \in {"TEXT", "Text"} -> "text"
      [] OTHER -> a

\* whether s occurs in t at position p, whatever the case
LitAtI(t, p, s) ==
    /\ p + Len(s) - 1 <= Len(t)
    /\ \A i \in 1..Len(s) : CaseFold(t[p + i - 1]) = CaseFold(s[i])

\* a repetition whose first character is of the class (hneg, hset) and whose
\* others are of the class (neg, set): [^0-9\n][^\n]{20,} is one such item
RepH(hneg, hset, neg, set, min, max, greedy) ==
    [k |-> "rep", hneg |-> hneg, hset |-> hset, neg |-> neg, set |-> set,
     min |-> min, max |-> max, greedy |-> greedy]

Rep(neg, set, min, max, greedy) == RepH(neg, set, neg, set, min, max, greedy)

GroupOpen == [k |-> "open"]

GroupClose == [k |-> "close"]

InClass(c, it) == (c \in it.set) # it.neg

InHeadClass(c, it) == (c \in it.hset) # it.hneg

RECURSIVE Width(_, _, _)
\* the number of characters of the k atoms of t from position p
Width(t, p, k) ==
    IF k = 0 THEN 0 ELSE Len(t[p]) + Width(t, p + 1, k - 1)

\* the least element of a non-empty set of integers
Least(S) == CHOOSE x \in S : \A y \in S : x <= y

\* the longest run of atoms of the class from position p, within max
\* characters; the first atom is of the head class when used = 0
RunLen(t, p, it, used) ==
    LET last == IF it.max < 0 \/ p + it.max - 1 > Len(t)
                THEN Len(t) ELSE p + it.max - 1
        Fits(j) ==
            /\ IF j = p /\ used = 0 THEN InHeadClass(t[j], it)
                                     ELSE InClass(t[j], it)
            /\ (it.max < 0 \/ used + Width(t, p, j - p + 1) <= it.max)
        stops == {j \in p..last : ~Fits(j)}
    IN  IF stops = {} THEN (IF last < p THEN 0 ELSE last - p + 1)
        ELSE Least(stops) - p

NoMatch == [ok |-> FALSE, marks |-> <<>>, stop |-> 0]

RECURSIVE MatchAt(_, _, _, _)
RECURSIVE TryRep(_, _, _, _, _, _)
MatchAt(rx, ri, t, p) ==
    IF ri > Len(rx) THEN [ok |-> TRUE, marks |-> <<>>, stop |-> p]
    ELSE LET it == rx[ri] IN
         CASE it.k = "lit" ->
                  IF LitAt(t, p, it.s)
                  THEN MatchAt(rx, ri + 1, t, p + Len(it.s))
                  ELSE NoMatch
           [] it.k = "liti" ->
                  IF LitAtI(t, p, it.s)
                  THEN MatchAt(rx, ri + 1, t, p + Len(it.s))
                  ELSE NoMatch
           [] it.k = "rep" ->
                  LET m == RunLen(t, p, it, 0)
                  IN  TryRep(rx, ri, t, p, IF it.greedy THEN m ELSE 0, m)
           [] OTHER ->
                  LET r == MatchAt(rx, ri + 1, t, p)
                  IN  IF r.ok THEN [r EXCEPT !.marks = <<p>> \o @] ELSE NoMatch

TryRep(rx, ri, t, p, k, m) ==
    IF k < 0 \/ k > m THEN NoMatch
    ELSE LET r == IF Width(t, p, k) >= rx[ri].min
                  THEN MatchAt(rx, ri + 1, t, p + k)
                  ELSE NoMatch
         IN  IF r.ok THEN r
             ELSE TryRep(rx, ri, t, p,
                         IF rx[ri].greedy THEN k - 1 ELSE k + 1, m)

\* re.search: the match at the leftmost position that has one
SearchFrom(rx, t, s) ==
    LET starts == {q \in s..(Len(t) + 1) : MatchAt(rx, 1, t, q).ok}
    IN  IF starts = {} THEN NoMatch ELSE MatchAt(rx, 1, t, Least(starts))

ReSearch(rx, t) == SearchFrom(rx, t, 1)

RECURSIVE FindAllFrom(_, _, _)
\* re.findall: the matches from left to right, each search starting where
\* the match before stopped (no pattern of the program matches the empty text)
FindAllFrom(rx, t, s) ==
    LET r == SearchFrom(rx, t, s)
    IN  IF ~r.ok THEN <<>> ELSE <<r>> \o FindAllFrom(rx, t, r.stop)

ReFindAll(rx, t) == FindAllFrom(rx, t, 1)

\* match.group(2)
Group2(t, r) == SubSeq(t, r.marks[3], r.marks[4] - 1)

\* match.group(1)
Group1(t, r) == SubSeq(t, r.marks[1], r.marks[2] - 1)

RxWS == Rep(FALSE, WS, 0, -1, TRUE)


RxNotQuote == Rep(TRUE, {"\""}, 0, -1, TRUE)

RxToLineEnd == Rep(TRUE, {"\n"}, 1, -1, TRUE)

\* ------------------------------------------------------------- JSON sheets
\* A sheet is None or a dict; a dict is the set of its <<key, value>> items.
\* JsonLoads reads an object whose members are "key": "value" strings, the
\* only JSON the texts of this model carry; anything else is a
\* JSONDecodeError.

NoneSheet == [none |-> TRUE, items |-> {}]

Dict(items) == [none |-> FALSE, items |-> items]

\* bool(sheet): None and {} are false
Truthy(sh) == ~sh.none /\ sh.items # {}

RxJsonMember ==
    << Lit(<<"\"">>), GroupOpen, RxNotQuote, GroupClose, Lit(<<"\"">>),
       RxWS, Lit(<<":">>), RxWS,
       Lit(<<"\"">>), GroupOpen, RxNotQuote, GroupClose, Lit(<<"\"">>) >>

SkipWS(g, p) == p + RunLen(g, p, RxWS, 0)

RECURSIVE JsonMembers(_, _, _)

\* after a member: the closing brace that ends g, or a comma and the rest
JsonAfterMember(g, q, acc) ==
    IF LitAt(g, q, <<"}">>) /\ q = Len(g)
    THEN [ok |-> TRUE, items |-> acc]
    ELSE IF LitAt(g, q, <<",">>)
         THEN JsonMembers(g, q + 1, acc)
         ELSE [ok |-> FALSE, items |-> {}]

\* the member r matched: a later key replaces an earlier equal one
JsonMember(g, acc, r) ==
    IF ~r.ok THEN [ok |-> FALSE, items |-> {}]
    ELSE JsonAfterMember(
             g, SkipWS(g, r.stop),
             {it \in acc : it[1] # Group1(g, r)}
                 \cup {<<Group1(g, r), Group2(g, r)>>})

\* the members from position p on, up to the closing brace that ends g
JsonMembers(g, p, acc) ==
    JsonMember(g, acc, MatchAt(RxJsonMember, 1, g, SkipWS(g, p)))

\* json.loads of the text of an object
JsonLoads(g) ==
    IF ~LitAt(g, 1, <<"{">>) THEN [ok |-> FALSE, items |-> {}]
    ELSE LET q == SkipWS(g, 2)
         IN  IF LitAt(g, q, <<"}">>) /\ q = Len(g)
             THEN [ok |-> TRUE, items |-> {}]
             ELSE JsonMembers(g, 2, {})

\* json.loads descends one call for every array that opens inside a value;
\* deeper than the interpreter's limit on nested calls it raises
\* RecursionError, which is not a JSONDecodeError. The limit (1000 in
\* CPython by default) is scaled to the texts of this model.
RecursionLimit == 3

RECURSIVE NestingAt(_, _)

\* the number of arrays that open one inside the other from position p on
NestingAt(g, p) ==
    IF LitAt(g, p, <<"[">>) THEN 1 + NestingAt(g, p + 1) ELSE 0

RxJsonKey ==
    << Lit(<<"\"">>), RxNotQuote, Lit(<<"\"">>), RxWS, Lit(<<":">>), RxWS >>

\* the value of the first member of the object g nests deeper than the limit
DeepValue(g, r) == r.ok /\ NestingAt(g, r.stop) > RecursionLimit

\* json.loads of the text of an object raises RecursionError
JsonRecursion(g) ==
    /\ LitAt(g, 1, <<"{">>)
    /\ DeepValue(g, MatchAt(RxJsonKey, 1, g, SkipWS(g, 2)))

\* ------------------------------------------------ StreamingPanelParser

\* len(dialogue_text) > 10
MinDialogueLen == 10

max_panels == 6

\* r'<LABEL>:\s*({.*?})'
RxSection(label) ==
    << Lit(<<label, ":">>), RxWS, GroupOpen, Lit(<<"{">>),
       Rep(TRUE, {}, 0, -1, FALSE), Lit(<<"}">>), GroupClose >>

\* json.loads succeeded: the sheet is the object; JSONDecodeError: unchanged
SheetOfJson(sheet, j) == IF j.ok THEN Dict(j.items) ELSE sheet

SheetOfMatch(sheet, text, m) ==
    IF ~m.ok THEN sheet ELSE SheetOfJson(sheet, JsonLoads(Group1(text, m)))

\* the block without its `is None` test: the section is read again
ExtractSectionAgain(sheet, label, text) ==
    SheetOfMatch(sheet, text, ReSearch(RxSection(label), text))

\* one of the three blocks of _extract_global_sections
ExtractSection(sheet, label, text) ==
    IF ~sheet.none THEN sheet
    ELSE SheetOfMatch(sheet, text, ReSearch(RxSection(label), text))

\* json.loads raises in the block of the section: `except
\* json.JSONDecodeError` does not catch it
SectionRaisesAt(text, m) == m.ok /\ JsonRecursion(Group1(text, m))

SectionRaises(sheet, label, text) ==
    sheet.none /\ SectionRaisesAt(text, ReSearch(RxSection(label), text))

_extract_global_sections(ps, text) ==
    [ps EXCEPT
        !.character_sheet = ExtractSection(@, "CHARACTER_SHEET", text),
        !.prop_sheet = ExtractSection(@, "PROP_SHEET", text),
        !.style_guide = ExtractSection(@, "STYLE_GUIDE", text)]

PanelLabel(n) == <<"PANEL", "_">> \o NumAtoms(n) \o <<":">>

dialogue_patterns(n) ==
    << \* PANEL_n:\s*dialogue_text:\s*"([^"]*)"
       << Lit(PanelLabel(n)), RxWS, Lit(<<"dialogue", "_", "text", ":">>),
          RxWS, Lit(<<"\"">>), GroupOpen, RxNotQuote, GroupClose,
          Lit(<<"\"">>) >>,
       \* PANEL_n:\s*dialogue_text:\s*([^\n]+)
       << Lit(PanelLabel(n)), RxWS, Lit(<<"dialogue", "_", "text", ":">>),
          RxWS, GroupOpen, RxToLineEnd, GroupClose >>,
       \* PANEL_n:[^:]*dialogue_text[:\s]*"([^"]*)"
       << Lit(PanelLabel(n)), Rep(TRUE, {":"}, 0, -1, TRUE),
          Lit(<<"dialogue", "_", "text">>),
          Rep(FALSE, {":", " ", "\n"}, 0, -1, TRUE),
          Lit(<<"\"">>), GroupOpen, RxNotQuote, GroupClose, Lit(<<"\"">>) >>,
       \* PANEL_n:[^:]*dialogue_text[:\s]*([^\n]+)
       << Lit(PanelLabel(n)), Rep(TRUE, {":"}, 0, -1, TRUE),
          Lit(<<"dialogue", "_", "text">>),
          Rep(FALSE, {":", " ", "\n"}, 0, -1, TRUE),
          GroupOpen, RxToLineEnd, GroupClose >> >>

\* `if dialogue_text and len(dialogue_text) > 10`
MeaningfulContent(d) == d # <<>> /\ PyLen(d) > MinDialogueLen

RECURSIVE PatternLoop(_, _, _, _)

\* dialogue_text = dialogue_match.group(1).strip(); break when meaningful
PatternGroup(text, n, i, d) ==
    IF MeaningfulContent(d) THEN d ELSE PatternLoop(text, n, i + 1, d)

\* if dialogue_match
PatternMatch(text, n, i, cur, m) ==
    IF ~m.ok THEN PatternLoop(text, n, i + 1, cur)
    ELSE PatternGroup(text, n, i, Strip(Group1(text, m)))

\* the for loop over dialogue_patterns: dialogue_text is the stripped group
\* of the last pattern that matched, the loop breaking at meaningful content
PatternLoop(text, n, i, cur) ==
    IF i > Len(dialogue_patterns(n)) THEN cur
    ELSE PatternMatch(text, n, i, cur,
                      ReSearch(dialogue_patterns(n)[i], text))

emotional_arc ==
    <<"neutral", "tense", "contemplative", "hopeful", "determined",
      "uplifting">>

_determine_emotional_tone(n) ==
    IF n \in 1..6 THEN emotional_arc[n] ELSE "neutral"

\* one item of a dict whose key and value are single words
KV(k, v) == <<<<k>>, <<v>>>>

PlaceholderCharacter ==
    Dict({KV("name", "Hero"), KV("age", "young"),
          KV("appearance", "determined character")})

PlaceholderProp ==
    Dict({KV("items", "[hope]"), KV("environment", "inspiring setting")})

PlaceholderStyle ==
    Dict({KV("art_style", "shonen manga"),
          KV("visual_elements", "[emotional]")})

Or(sheet, placeholder) == IF Truthy(sheet) THEN sheet ELSE placeholder

PanelRecord(n, ps, d) ==
    [panel_number |-> n,
     character_sheet |-> ps.character_sheet,
     prop_sheet |-> ps.prop_sheet,
     style_guide |-> ps.style_guide,
     dialogue_text |-> d,
     emotional_tone |-> _determine_emotional_tone(n),
     tts_text |-> d]

\* self.character_sheet = self.character_sheet or {...}, and so on
WithPlaceholders(ps) ==
    [ps EXCEPT !.character_sheet = Or(@, PlaceholderCharacter),
               !.prop_sheet = Or(@, PlaceholderProp),
               !.style_guide = Or(@, PlaceholderStyle)]

\* `if dialogue_text:` the record, else None
PanelOfDialogue(ps, n, d) ==
    IF d = <<>> THEN [ps |-> ps, out |-> <<>>]
    ELSE [ps |-> WithPlaceholders(ps),
          out |-> <<PanelRecord(n, WithPlaceholders(ps), d)>>]

\* returns the parser (its sheets may have been filled in) and the panel
\* found, as a sequence of zero or one record
_extract_panel_data(ps, text, n) ==
    PanelOfDialogue(ps, n, PatternLoop(text, n, 1, <<>>))

\* the reset that keeps the text
_reset_keeping_text(ps) == ps

_reset_for_next_panel(ps) == [ps EXCEPT !.accumulated_text = <<>>]

\* self.accumulated_text += token
Accumulate(ps, token) == [ps EXCEPT !.accumulated_text = @ \o token]

\* self._extract_global_sections(self.accumulated_text)
GlobalSections(ps) == _extract_global_sections(ps, ps.accumulated_text)

\* self._extract_panel_data(self.accumulated_text, self.current_panel)
CurrentPanel(ps) ==
    _extract_panel_data(ps, ps.accumulated_text, ps.current_panel)

\* `if panel_data:` the panel is completed and the text is cleared
CompletePanel(r) ==
    IF r.out = <<>> THEN [ps |-> r.ps, out |-> <<>>]
    ELSE [ps |-> _reset_for_next_panel(
                    [r.ps EXCEPT !.completed_panels = @ \o r.out,
                                 !.current_panel = @ + 1]),
          out |-> r.out]

process_token(ps, token) ==
    CompletePanel(CurrentPanel(GlobalSections(Accumulate(ps, token))))

\* process_token raises on the token: one of the three blocks of
\* _extract_global_sections raises (a block that raises leaves its sheet
\* None, so the blocks after it see the state that ExtractSection gives)
process_token_raises(ps, token) ==
    \E lf \in { <<"CHARACTER_SHEET", ps.character_sheet>>,
                <<"PROP_SHEET", ps.prop_sheet>>,
                <<"STYLE_GUIDE", ps.style_guide>> } :
        SectionRaises(lf[2], lf[1], ps.accumulated_text \o token)

\* the parser that the raise leaves behind: the token is in the buffer and
\* the blocks before the raising one have run
RaisedAt(a, label) ==
    IF label = "CHARACTER_SHEET" THEN a
    ELSE IF label = "PROP_SHEET"
         THEN [a EXCEPT !.character_sheet =
                   ExtractSection(@, "CHARACTER_SHEET", a.accumulated_text)]
         ELSE [a EXCEPT
                  !.character_sheet =
                      ExtractSection(@, "CHARACTER_SHEET", a.accumulated_text),
                  !.prop_sheet =
                      ExtractSection(@, "PROP_SHEET", a.accumulated_text)]

AfterRaise(ps, token) ==
    LET a == Accumulate(ps, token)
    IN  IF SectionRaises(a.character_sheet, "CHARACTER_SHEET",
                         a.accumulated_text)
        THEN RaisedAt(a, "CHARACTER_SHEET")
        ELSE IF SectionRaises(a.prop_sheet, "PROP_SHEET", a.accumulated_text)
             THEN RaisedAt(a, "PROP_SHEET")
             ELSE RaisedAt(a, "STYLE_GUIDE")

\* __init__ and reset()
FreshParser ==
    [accumulated_text |-> <<>>,
     current_panel |-> 1,
     completed_panels |-> <<>>,
     character_sheet |-> NoneSheet,
     prop_sheet |-> NoneSheet,
     style_guide |-> NoneSheet]


\* ---------------------------------------------------- DialogueExtractor

DigitStrings == <<"0", "1", "2", "3", "4", "5", "6", "7", "8", "9">>

DigitValue(c) == (CHOOSE i \in 1..10 : DigitStrings[i] = c) - 1

RECURSIVE ToInt(_, _)
\* int(panel_num)
ToInt(ds, acc) ==
    IF ds = <<>> THEN acc ELSE ToInt(Tail(ds), 10 * acc + DigitValue(Head(ds)))

RxDigits == Rep(FALSE, DigitChars, 1, -1, TRUE)

RxLabelSep == Rep(FALSE, {":", " ", "\n"}, 0, -1, TRUE)

\* PANEL_(\d+):\s*dialogue_text:\s*"([^"]*)"
strategy1_pattern ==
    << Lit(<<"PANEL", "_">>), GroupOpen, RxDigits, GroupClose, Lit(<<":">>),
       RxWS, Lit(<<"dialogue", "_", "text", ":">>), RxWS,
       Lit(<<"\"">>), GroupOpen, RxNotQuote, GroupClose, Lit(<<"\"">>) >>

\* PANEL_(\d+):\s*dialogue_text:\s*([^\n]+)
strategy2_pattern ==
    << Lit(<<"PANEL", "_">>), GroupOpen, RxDigits, GroupClose, Lit(<<":">>),
       RxWS, Lit(<<"dialogue", "_", "text", ":">>), RxWS,
       GroupOpen, RxToLineEnd, GroupClose >>

\* PANEL\s*(\d+)[:\s]*.*?dialogue[_\s]*text[:\s]*["\']?([^"\'\n]+)["\']?
\* with re.DOTALL | re.IGNORECASE
strategy3_pattern ==
    << LitI(<<"PANEL">>), RxWS, GroupOpen, RxDigits, GroupClose, RxLabelSep,
       Rep(TRUE, {}, 0, -1, FALSE),
       LitI(<<"dialogue">>), Rep(FALSE, {"_", " ", "\n"}, 0, -1, TRUE),
       LitI(<<"text">>), RxLabelSep,
       Rep(FALSE, {"\"", "'"}, 0, 1, TRUE),
       GroupOpen, Rep(TRUE, {"\"", "'", "\n"}, 1, -1, TRUE), GroupClose,
       Rep(FALSE, {"\"", "'"}, 0, 1, TRUE) >>

\* (\d+)[\.:\s]+([^0-9\n][^\n]{20,})
strategy4_pattern ==
    << GroupOpen, RxDigits, GroupClose,
       Rep(FALSE, {".", ":", " ", "\n"}, 1, -1, TRUE),
       GroupOpen,
       RepH(TRUE, DigitChars \cup {"\n"}, TRUE, {"\n"}, 21, -1, TRUE),
       GroupClose >>

\* a dict is a function; d[k] = v
Put(d, k, v) == (k :> v) @@ d

EmptyDict == << >>

\* `dialogue.strip() and len(dialogue.strip()) > 10`
Qualifies(d) == Strip(d) # <<>> /\ PyLen(Strip(d)) > 10

RECURSIVE Strategy1Loop(_, _, _, _)
\* a later match of the same panel number overwrites an earlier one
Strategy1Loop(text, ms, i, panels) ==
    IF i > Len(ms) THEN panels
    ELSE LET num == ToInt(Group1(text, ms[i]), 0)
             d   == Group2(text, ms[i])
         IN  Strategy1Loop(text, ms, i + 1,
                 IF Qualifies(d) THEN Put(panels, num, Strip(d)) ELSE panels)

RECURSIVE StrategyLoopOverwriting(_, _, _, _)
\* a variant without the `panel_int not in panels` test
StrategyLoopOverwriting(text, ms, i, panels) ==
    IF i > Len(ms) THEN panels
    ELSE LET num == ToInt(Group1(text, ms[i]), 0)
             d   == Group2(text, ms[i])
         IN  StrategyLoopOverwriting(text, ms, i + 1,
                 IF Qualifies(d) THEN Put(panels, num, Strip(d)) ELSE panels)

RECURSIVE StrategyLoop(_, _, _, _)
\* strategies 2 and 3: only a panel number not yet in panels is filled
StrategyLoop(text, ms, i, panels) ==
    IF i > Len(ms) THEN panels
    ELSE LET num == ToInt(Group1(text, ms[i]), 0)
             d   == Group2(text, ms[i])
         IN  StrategyLoop(text, ms, i + 1,
                 IF num \notin DOMAIN panels /\ Qualifies(d)
                 THEN Put(panels, num, Strip(d)) ELSE panels)

RECURSIVE RStripDots(_)
\* str.rstrip('.')
RStripDots(t) ==
    IF t # <<>> /\ t[Len(t)] = "." THEN RStripDots(SubSeq(t, 1, Len(t) - 1))
    ELSE t

RECURSIVE Strategy4Loop(_, _, _, _, _)
\* the numbered blocks fill panel_counter, which moves on only when it fills
Strategy4Loop(text, ms, i, panel_counter, panels) ==
    IF i > Len(ms) THEN panels
    ELSE LET clean == RStripDots(Strip(Group2(text, ms[i])))
         IN  IF /\ panel_counter <= 6
                /\ panel_counter \notin DOMAIN panels
                /\ PyLen(clean) > 15
             THEN Strategy4Loop(text, ms, i + 1, panel_counter + 1,
                                Put(panels, panel_counter, clean))
             ELSE Strategy4Loop(text, ms, i + 1, panel_counter, panels)

NeedsMore(panels) == Cardinality(DOMAIN panels) < 6

Strategy1(text) ==
    Strategy1Loop(text, ReFindAll(strategy1_pattern, text), 1, EmptyDict)

Strategy2(text, panels) ==
    IF NeedsMore(panels)
    THEN StrategyLoop(text, ReFindAll(strategy2_pattern, text), 1, panels)
    ELSE panels

Strategy3(text, panels) ==
    IF NeedsMore(panels)
    THEN StrategyLoop(text, ReFindAll(strategy3_pattern, text), 1, panels)
    ELSE panels

Strategy4(text, panels) ==
    IF NeedsMore(panels)
    THEN Strategy4Loop(text, ReFindAll(strategy4_pattern, text), 1, 1, panels)
    ELSE panels

extract_all_panels_robust(text) ==
    Strategy4(text, Strategy3(text, Strategy2(text, Strategy1(text))))

\* StoryInputs, as far as the narration templates read it; inputs may be None
Profile(nickname, dream, mood) ==
    [none |-> FALSE, nickname |-> nickname, dream |-> dream, mood |-> mood]

NoInputs ==
    [none |-> TRUE, nickname |-> <<>>, dream |-> <<>>, mood |-> <<>>]

NameOf(inputs) == IF inputs.none THEN <<"our hero">> ELSE inputs.nickname

DreamOf(inputs) == IF inputs.none THEN <<"their goals">> ELSE inputs.dream

MoodOf(inputs) == IF inputs.none THEN <<"uncertain">> ELSE inputs.mood

\* a variant whose six texts name the hero and nothing else
fallback_dialogues_plain(name, dream, mood) ==
    [n \in 1..6 |-> name \o <<" continues the journey, one more step at a time.">>]

fallback_dialogues(name, dream, mood) ==
    << <<"Meet ">> \o name \o <<". They're feeling ">> \o mood
         \o <<" today, but deep inside burns a desire to achieve ">> \o dream
         \o <<". Every great journey begins with a single step forward.">>,
       name \o <<" faces the challenge ahead. The path to ">> \o dream
         \o <<" isn't easy, but they've come too far to give up now. Sometimes the hardest battles are the ones we fight within ourselves.">>,
       <<"Taking a moment to breathe, ">> \o name
         \o <<" reflects on how far they've already come. Even when feeling ">>
         \o mood
         \o <<", there's strength in acknowledging both struggles and progress.">>,
       <<"In this moment of clarity, ">> \o name
         \o <<" discovers something important. Their ">> \o dream
         \o <<" isn't just about the destination - it's about becoming the person they're meant to be along the way.">>,
       <<"With newfound determination, ">> \o name
         \o <<" takes action. They realize that being ">> \o mood
         \o <<" doesn't define them - it's just one part of their story, and they have the power to write the next chapter.">>,
       <<"Looking back on the journey, ">> \o name
         \o <<" sees how much they've grown. The road to ">> \o dream
         \o <<" continues, but now they know they have the strength to face whatever comes next. Hope lights the way forward.">> >>

\* len(panels[panel_num]) > 20
SubstantialLen == 20

\* a variant that keeps whatever was found, however short
SubstantialAnyLength(panels, n) == n \in DOMAIN panels

\* `panel_num in panels and len(panels[panel_num]) > 20`
Substantial(panels, n) ==
    n \in DOMAIN panels /\ PyLen(panels[n]) > SubstantialLen

validate_and_enhance_dialogue(panels, inputs) ==
    [n \in 1..6 |->
        IF Substantial(panels, n) THEN panels[n]
        ELSE fallback_dialogues(NameOf(inputs), DreamOf(inputs),
                                MoodOf(inputs))[n]]

\* ------------------------------------------------- the texts of the model
\* What the text-generation service may emit: the documented block syntax,
\* with any subset of the panels present and the blocks well-formed or not.

Opening ==
    <<"Maya", "Doubt", "Quiet", "Light", "Brave", "Home", "Later">>

\* the narration of panel n: 24 characters or more
DialogueOf(n) == <<Opening[n], " ", "keeps going today", ".">>

\* a narration of 13 characters: above the parser's threshold, below the
\* 20 of validate_and_enhance_dialogue
ShortDialogueOf(n) == <<Opening[n], " ", "goes on", ".">>

\* PANEL_n:\ndialogue_text: "<d>"\n\n
QuotedBlock(n, d) ==
    PanelLabel(n) \o <<"\n", "dialogue", "_", "text", ":", " ", "\"">>
    \o d \o <<"\"", "\n", "\n">>

\* PANEL_n:\ndialogue_text: <d>\n\n
UnquotedBlock(n, d) ==
    PanelLabel(n) \o <<"\n", "dialogue", "_", "text", ":", " ">>
    \o d \o <<"\n", "\n">>

CharacterSection(name) ==
    <<"CHARACTER_SHEET", ":", "\n", "{", "\"", "name", "\"", ":", " ",
      "\"", name, "\"", "}", "\n">>

RECURSIVE Blocks(_, _, _)
\* the blocks of the panels of `present`, in increasing order from n
Blocks(present, quoted, n) ==
    IF n > 7 THEN <<>>
    ELSE (IF n \in present
          THEN IF quoted THEN QuotedBlock(n, DialogueOf(n))
               ELSE UnquotedBlock(n, DialogueOf(n))
          ELSE <<>>) \o Blocks(present, quoted, n + 1)

StoryText(present, quoted, sheet) ==
    (IF sheet THEN CharacterSection("Maya") ELSE <<>>)
    \o Blocks(present, quoted, 1)


\* ------------------------------------- process_streaming_response (driver)

RobustCharacter == Dict({KV("name", "Hero"), KV("age", "young")})

RobustProp == Dict({KV("items", "[hope]"), KV("environment", "inspiring")})

RobustStyle == Dict({KV("art_style", "shonen manga")})

\* f"Panel {panel_num}: The journey continues with determination and hope."
JourneyContinues(n) ==
    <<"Panel ">> \o NumAtoms(n)
    \o <<": The journey continues with determination and hope.">>

RECURSIVE RobustLoop(_, _, _)
\* for panel_num in range(1, max_panels + 1)
RobustLoop(ps, extracted, panel_num) ==
    IF panel_num > max_panels THEN ps
    ELSE IF panel_num > Len(ps.completed_panels)
         THEN LET d   == IF panel_num \in DOMAIN extracted
                         THEN extracted[panel_num]
                         ELSE JourneyContinues(panel_num)
                  ps2 == [ps EXCEPT
                             !.character_sheet = Or(@, RobustCharacter),
                             !.prop_sheet = Or(@, RobustProp),
                             !.style_guide = Or(@, RobustStyle)]
              IN  RobustLoop(
                      [ps2 EXCEPT !.completed_panels =
                                      @ \o <<PanelRecord(panel_num, ps2, d)>>],
                      extracted, panel_num + 1)
         ELSE RobustLoop(ps, extracted, panel_num + 1)

_extract_remaining_panels_robust(ps, full_text) ==
    RobustLoop(ps, extract_all_panels_robust(full_text), 1)

\* self.completed_panels[len(self.completed_panels):]
AdditionalPanels(completed) ==
    SubSeq(completed, Len(completed) + 1, Len(completed))

\* for panel in self.completed_panels[len(self.completed_panels):]: yield
YieldAdditional(ps) ==
    [ps |-> ps, out |-> AdditionalPanels(ps.completed_panels)]

\* the code after the async for of process_streaming_response: the parser
\* afterwards and the panels yielded
AfterStream(ps, full_text) ==
    IF full_text # <<>> /\ Len(ps.completed_panels) < max_panels
    THEN YieldAdditional(_extract_remaining_panels_robust(ps, full_text))
    ELSE [ps |-> ps, out |-> <<>>]

\* ------------------------------------------------------- error texts
\* str(e) of the exceptions of the services, as atoms (words and spaces)

E429 == <<"429", " ", "Quota", " ", "exceeded">>

ERateLimit == <<"Rate", " ", "limit", " ", "reached">>

EConnection == <<"Connection", " ", "reset">>

EStorage == <<"Bucket", " ", "unavailable">>

EResourceExhausted ==
    <<"RESOURCE", "_", "EXHAUSTED", ":", " ", "quota", "_", "exceeded">>

EBadInput == <<"Bad", " ", "input">>

ETts == <<"Synthesis", " ", "failed">>

\* str.lower() on the atoms of the error texts
LowerAtom(a) ==
    CASE a = "Quota" -> "quota"
      [] a = "Rate" -> "rate"
      [] a = "Connection" -> "connection"
      [] a = "Bucket" -> "bucket"
      [] a = "Synthesis" -> "synthesis"
      [] a = "RESOURCE" -> "resource"
      [] a = "EXHAUSTED" -> "exhausted"
      [] a = "Bad" -> "bad"
      [] OTHER -> a

Lower(t) == [i \in 1..Len(t) |-> LowerAtom(t[i])]

rate_limit_keywords ==
    { <<"rate", " ", "limit">>, <<"quota">>,
      <<"too", " ", "many", " ", "requests">>, <<"429">>, <<"throttled">>,
      <<"resource", "_", "exhausted">>, <<"quota", "_", "exceeded">>,
      <<"rate", "_", "limited">> }

\* is_rate_limit of exponential_backoff_async
is_rate_limit(e) ==
    \E keyword \in rate_limit_keywords : Contains(Lower(e), keyword)

\* is_quota_exceeded of _generate_panel_image
is_quota_exceeded(e) ==
    \/ Contains(Lower(e), <<"quota", " ", "exceeded">>)
    \/ Contains(Lower(e), <<"429">>)

\* ------------------------------------------------------- StorageService

\* f"{panel_number:02d}"
TwoDigits(n) == IF n < 10 THEN <<"0">> \o NumAtoms(n) ELSE NumAtoms(n)

image_filename(story_id, n) ==
    <<"stories/", story_id, "/panel_">> \o TwoDigits(n) \o <<".png">>

tts_filename(story_id, n) ==
    <<"stories/", story_id, "/tts_panel_">> \o TwoDigits(n) \o <<".mp3">>

\* the signed URL upload_bytes returns for a blob
SignedUrl(filename) == <<"https://storage.googleapis.com/">> \o filename

\* ------------------------------------------------------- PanelProcessor
\* The environment of one process_panel call says what the services do:
\*   image            <<>> when generate_image succeeds, else its error text
\*   image_upload     whether the upload of the generated image succeeds
\*   simplified       whether generate_image succeeds on the simplified prompt
\*   fallback_upload  whether the upload of the fallback image succeeds
\*   tts, tts_upload  whether synthesis and its upload succeed
\*   first            the branch whose events reach the sink first

Event(type, n, story_id) ==
    [event_type |-> type, panel_number |-> n, story_id |-> story_id]

\* a branch ends by returning a URL or by raising e
Returned(url, events, writes) ==
    [raised |-> FALSE, url |-> url, e |-> <<>>, events |-> events,
     writes |-> writes]

Raised(e, events, writes) ==
    [raised |-> TRUE, url |-> <<>>, e |-> e, events |-> events,
     writes |-> writes]

\* ImageService.generate_fallback_image: the simplified prompt, and the
\* locally drawn placeholder when that fails too; it never raises
generate_fallback_image(env) ==
    IF env.simplified THEN "simplified" ELSE "placeholder"

_generate_panel_image(panel_data, story_id, env) ==
    LET n        == panel_data.panel_number
        start    == <<Event("image_generation_start", n, story_id)>>
        complete == <<Event("image_generation_complete", n, story_id)>>
        error    == <<Event("image_generation_error", n, story_id)>>
        name     == image_filename(story_id, n)
        e        == IF env.image # <<>> THEN env.image ELSE EStorage
    IN  IF env.image = <<>> /\ env.image_upload
        THEN Returned(SignedUrl(name), start \o complete,
                      <<<<name, "generated">>>>)
        ELSE IF is_quota_exceeded(e) /\ env.fallback_upload
             THEN Returned(SignedUrl(name),
                           start \o <<("is_fallback" :> TRUE) @@ complete[1]>>,
                           <<<<name, generate_fallback_image(env)>>>>)
             ELSE Raised(e, start \o error, <<>>)

\* the TTS branch whose except clause raises without its error event
_generate_panel_tts_silent(panel_data, story_id, env) ==
    LET n        == panel_data.panel_number
        start    == <<Event("tts_generation_start", n, story_id)>>
        complete == <<Event("tts_generation_complete", n, story_id)>>
        name     == tts_filename(story_id, n)
    IN  IF env.tts /\ env.tts_upload
        THEN Returned(SignedUrl(name), start \o complete,
                      <<<<name, panel_data.tts_text>>>>)
        ELSE Raised(IF env.tts THEN EStorage ELSE ETts, start, <<>>)

_generate_panel_tts(panel_data, story_id, env) ==
    LET n        == panel_data.panel_number
        start    == <<Event("tts_generation_start", n, story_id)>>
        complete == <<Event("tts_generation_complete", n, story_id)>>
        error    == <<Event("tts_generation_error", n, story_id)>>
        name     == tts_filename(story_id, n)
    IN  IF env.tts /\ env.tts_upload
        THEN Returned(SignedUrl(name), start \o complete,
                      <<<<name, panel_data.tts_text>>>>)
        ELSE Raised(IF env.tts THEN EStorage ELSE ETts, start \o error, <<>>)

\* asyncio.gather without return_exceptions: the first exception propagates
gather_fail_fast(image, tts) ==
    IF image.raised \/ tts.raised
    THEN [raised |-> TRUE, results |-> <<>>]
    ELSE [raised |-> FALSE, results |-> <<image, tts>>]

\* asyncio.gather(*tasks.values(), return_exceptions=True)
gather(image, tts) == [raised |-> FALSE, results |-> <<image, tts>>]

static_music_url == <<"/src/assets/audio/background-music.mp3">>

\* the slot of a branch: "" when the result is an exception
AssetUrl(result) == IF result.raised THEN <<>> ELSE result.url

WithUrls(panel_data, image_url, music_url, tts_url) ==
    [k \in DOMAIN panel_data \cup {"image_url", "music_url", "tts_url"} |->
        CASE k = "image_url" -> image_url
          [] k = "music_url" -> music_url
          [] k = "tts_url" -> tts_url
          [] OTHER -> panel_data[k]]

\* the record returned, the events emitted and the blobs written
process_panel(panel_data, story_id, env) ==
    LET n      == panel_data.panel_number
        image  == _generate_panel_image(panel_data, story_id, env)
        tts    == _generate_panel_tts(panel_data, story_id, env)
        branch == IF env.first = "image"
                  THEN [events |-> image.events \o tts.events,
                        writes |-> image.writes \o tts.writes]
                  ELSE [events |-> tts.events \o image.events,
                        writes |-> tts.writes \o image.writes]
        start  == <<Event("panel_processing_start", n, story_id)>>
        g      == gather(image, tts)
    IN  IF g.raised
        THEN [panel  |-> WithUrls(panel_data, <<>>, <<>>, <<>>),
              events |-> start \o branch.events
                         \o <<Event("panel_processing_error", n, story_id)>>,
              writes |-> branch.writes]
        ELSE [panel  |-> WithUrls(panel_data, AssetUrl(g.results[1]),
                                  static_music_url, AssetUrl(g.results[2])),
              events |-> start \o branch.events
                         \o <<Event("panel_processing_complete", n, story_id),
                              Event("panel_update", n, story_id)>>,
              writes |-> branch.writes]

\* ------------------------------------------------ StreamingStoryGenerator

\* get_manga_style_by_mood, as far as this model goes: a text that depends
\* on the mood
get_manga_style_by_mood(inputs) == <<"manga style for ">> \o inputs.mood

_generate_meaningful_dialogue(panel_number, inputs) ==
    LET name  == NameOf(inputs)
        dream == DreamOf(inputs)
        mood  == MoodOf(inputs)
        dialogue_map ==
            << <<"Meet ">> \o name \o <<". They're feeling ">> \o mood
                 \o <<" today, but deep inside burns a desire to ">> \o dream
                 \o <<". Every great journey begins with a single step forward.">>,
               fallback_dialogues(name, dream, mood)[2],
               fallback_dialogues(name, dream, mood)[3],
               fallback_dialogues(name, dream, mood)[4],
               fallback_dialogues(name, dream, mood)[5],
               fallback_dialogues(name, dream, mood)[6] >>
    IN  IF panel_number \in 1..6 THEN dialogue_map[panel_number]
        ELSE name \o <<" continues their journey toward ">> \o dream
             \o <<", growing stronger with each step.">>

\* the fields of the record that depend on the three profile fields of this
\* model; the other fields of the sheets are constants of the code
_create_fallback_panel(panel_number, inputs) ==
    LET dialogue_content == _generate_meaningful_dialogue(panel_number, inputs)
    IN  [panel_number |-> panel_number,
         character_sheet |->
             Dict({ <<<<"name">>, IF inputs.none THEN <<"Hero">>
                                                 ELSE inputs.nickname>>,
                    <<<<"goals">>, IF inputs.none THEN <<"overcome challenges">>
                                                  ELSE inputs.dream>>,
                    KV("personality", "determined and hopeful") }),
         prop_sheet |-> Dict({KV("lighting", "dynamic lighting")}),
         style_guide |->
             Dict({ <<<<"art_style">>,
                      IF inputs.none THEN <<"classic shonen manga style">>
                      ELSE get_manga_style_by_mood(inputs)>> }),
         dialogue_text |-> dialogue_content,
         emotional_tone |-> _determine_emotional_tone(panel_number),
         image_prompt |-> <<"Manga panel showing character's journey">>,
         music_prompt |-> <<"Emotional music for panel ">>
                          \o NumAtoms(panel_number),
         tts_text |-> dialogue_content]

RECURSIVE MissingPanels(_, _, _)
\* the two while loops after the stream: the panels from panel_count + 1 to
\* max_panels, with the enhanced dialogue when there is accumulated text
MissingPanels(count, enhanced_dialogues, inputs) ==
    IF count >= max_panels THEN <<>>
    ELSE LET panel_num == count + 1
             fallback  == _create_fallback_panel(panel_num, inputs)
             panel     ==
                 IF enhanced_dialogues = EmptyDict THEN fallback
                 ELSE [fallback EXCEPT
                          !.dialogue_text = enhanced_dialogues[panel_num],
                          !.tts_text = enhanced_dialogues[panel_num]]
         IN  <<panel>> \o MissingPanels(count + 1, enhanced_dialogues, inputs)

\* what generate_streaming_story yields once the stream is exhausted
AfterLoop(ps, count, inputs) ==
    IF count < max_panels
    THEN IF ps.accumulated_text # <<>>
         THEN MissingPanels(count,
                  validate_and_enhance_dialogue(
                      extract_all_panels_robust(ps.accumulated_text), inputs),
                  inputs)
         ELSE MissingPanels(count, EmptyDict, inputs)
    ELSE <<>>

\* the except handler: for i in range(max_panels): yield fallback
ExceptPanels(inputs) ==
    [i \in 1..max_panels |-> _create_fallback_panel(i, inputs)]

RECURSIVE ProcessAllAtOnce(_, _, _)
\* process_panels_streaming without the await on each processing task: every
\* panel is started as soon as the generator yields it
ProcessAllAtOnce(panels, sid, env) ==
    IF panels = <<>> THEN [panels |-> <<>>, events |-> <<>>, writes |-> <<>>]
    ELSE LET r    == process_panel(Head(panels), sid, env)
             rest == ProcessAllAtOnce(Tail(panels), sid, env)
         IN  [panels |-> <<r.panel>> \o rest.panels,
              events |-> <<Head(r.events)>> \o rest.events \o Tail(r.events),
              writes |-> r.writes \o rest.writes]

RECURSIVE ProcessAll(_, _, _)
\* process_panels_streaming on the panels the generator yields one after the
\* other: each is processed to its end before the next is asked for
ProcessAll(panels, sid, env) ==
    IF panels = <<>> THEN [panels |-> <<>>, events |-> <<>>, writes |-> <<>>]
    ELSE LET r    == process_panel(Head(panels), sid, env)
             rest == ProcessAll(Tail(panels), sid, env)
         IN  [panels |-> <<r.panel>> \o rest.panels,
              events |-> r.events \o rest.events,
              writes |-> r.writes \o rest.writes]


\* ------------------------------------------- SequentialStoryService
\* Texts are sequences of atoms in which a word, a blank and a punctuation
\* mark are atoms of their own, so that split() counts the words.

RECURSIVE lstrip(_, _)
lstrip(t, chars) ==
    IF t # <<>> /\ Head(t) \in chars THEN lstrip(Tail(t), chars) ELSE t

RECURSIVE rstrip(_, _)
rstrip(t, chars) ==
    IF t # <<>> /\ t[Len(t)] \in chars
    THEN rstrip(SubSeq(t, 1, Len(t) - 1), chars)
    ELSE t

\* str.strip(chars)
strip(t, chars) == rstrip(lstrip(t, chars), chars)

\* len(text.split()): the number of maximal runs of atoms that are not blank
WordCount(t) ==
    Cardinality({i \in 1..Len(t) :
                    /\ t[i] \notin WS
                    /\ (i = 1 \/ t[i - 1] \in WS)})

\* str.lower() and str.upper() on the atoms of the narration texts
LowerWord(a) ==
    CASE a = "Narration" -> "narration"
      [] a = "Panel" -> "panel"
      [] OTHER -> a

UpperWord(a) ==
    CASE a = "slowly" -> "Slowly"
      [] OTHER -> a

\* text[0].isupper() for the atoms a narration may begin with
isupper(a) ==
    a \in {"Maya", "Doubt", "Quiet", "Light", "Brave", "Home", "Later",
           "Narration", "Panel", "Slowly"}

prefixes_to_remove(panel_number) ==
    << <<"panel", " ">> \o NumAtoms(panel_number) \o <<":">>,
       <<"panel", "_">> \o NumAtoms(panel_number) \o <<":">>,
       <<"dialogue_text", ":">>,
       <<"narration", ":">>,
       <<"-">>,
       <<"*">> >>

\* text.lower().startswith(prefix)
startswith_lower(t, prefix) ==
    /\ Len(t) >= Len(prefix)
    /\ [i \in 1..Len(prefix) |-> LowerWord(t[i])] = prefix

RECURSIVE RemovePrefixes(_, _, _)
\* for prefix in prefixes_to_remove: one pass over the list, in order
RemovePrefixes(t, prefixes, i) ==
    IF i > Len(prefixes) THEN t
    ELSE IF startswith_lower(t, prefixes[i])
         THEN RemovePrefixes(
                  strip(SubSeq(t, Len(prefixes[i]) + 1, Len(t)), WS),
                  prefixes, i + 1)
         ELSE RemovePrefixes(t, prefixes, i + 1)

\* text.replace('*', '').replace('-', '').replace('[', '').replace(']', '')
RemoveFormatting(t) == SelectSeq(t, LAMBDA a : a \notin {"*", "-", "[", "]"})

_get_fallback_dialogue(panel_number) ==
    CASE panel_number = 1 ->
           <<"Every journey begins with a single step. Today feels uncertain, but there's something stirring inside, a quiet determination waiting to emerge.">>
      [] panel_number = 2 ->
           <<"The path ahead seems challenging, filled with obstacles that feel overwhelming. Yet deep down, there's a voice whispering that this struggle has meaning.">>
      [] panel_number = 3 ->
           <<"Taking a moment to breathe and reflect on how far the journey has already come. Even in uncertainty, there are small victories worth acknowledging.">>
      [] panel_number = 4 ->
           <<"A spark of clarity emerges. This challenge isn't just about reaching the destination, it's about discovering the strength that was always there.">>
      [] panel_number = 5 ->
           <<"With newfound understanding comes the courage to take action. Each step forward is a choice to believe in the possibility of growth and change.">>
      [] panel_number = 6 ->
           <<"Looking back on this journey, it's clear how much has changed. The path continues ahead, but now it's illuminated by hope and self-belief.">>
      [] OTHER -> <<"The journey continues with hope and determination.">>

_extract_clean_dialogue(response_text, panel_number) ==
    LET stripped  == strip(response_text, WS)
        unprefixed == RemovePrefixes(stripped,
                                     prefixes_to_remove(panel_number), 1)
        unquoted  == strip(unprefixed, {"\"", "'"})
        plain     == RemoveFormatting(unquoted)
        upper     == IF plain # <<>> /\ ~isupper(plain[1])
                     THEN <<UpperWord(plain[1])>> \o Tail(plain)
                     ELSE plain
        ended     == IF upper # <<>> /\ upper[Len(upper)] # "."
                     THEN upper \o <<".">>
                     ELSE upper
    IN  IF WordCount(ended) < 10 THEN _get_fallback_dialogue(panel_number)
        ELSE ended

\* what llm.invoke answers to the prompt of panel n: a narration of ten
\* words behind a label and in quotes, or one that is too short
NarrationOf(n) ==
    <<"Narration", ":", " ", "\"", Opening[n], " ", "takes", " ", "one", " ",
      "small", " ", "step", " ", "toward", " ", "the", " ", "open", " ",
      "door", " ", "today", "\"">>

ShortNarrationOf(n) ==
    <<"-", " ", "slowly", " ", Opening[n], " ", "moves", " ", "on", "\n">>

\* detailed_panel.update({'dialogue_text': ..., 'tts_text': ...})
WithDialogue(panel, dialogue) ==
    [panel EXCEPT !.dialogue_text = dialogue, !.tts_text = dialogue]

\* a variant that returns the basic panel as it is
_enhance_basic_panel_unchanged(basic_panel, panel_number) == basic_panel

_enhance_basic_panel(basic_panel, panel_number) ==
    WithDialogue(basic_panel, _get_fallback_dialogue(panel_number))

\* llm says what llm.invoke does: "full", "short", or "raises" when every
\* retry of exponential_backoff_async has failed
_generate_panel_content(basic_panel, panel_number, llm) ==
    IF llm = "raises" THEN _enhance_basic_panel(basic_panel, panel_number)
    ELSE WithDialogue(
             basic_panel,
             _extract_clean_dialogue(
                 IF llm = "full" THEN NarrationOf(panel_number)
                 ELSE ShortNarrationOf(panel_number),
                 panel_number))

fallback_tones ==
    <<"neutral", "tense", "contemplative", "hopeful", "determined",
      "uplifting">>

\* the fields of a basic panel that the orchestrator and process_panel read
_create_fallback_structure(profile) ==
    [i \in 1..6 |->
        [panel_number |-> i,
         character_sheet |-> [name |-> profile.nickname,
                              goals |-> profile.dream],
         dialogue_text |-> _get_fallback_dialogue(i),
         emotional_tone |-> fallback_tones[i],
         tts_text |-> _get_fallback_dialogue(i)]]

\* StoryService.generate_story_plan for an answer of the model that carries
\* the six blocks: the panels of _parse_story_architect_response, completed
\* by _combine_ai_responses
generate_story_plan(profile) ==
    [i \in 1..6 |->
        [panel_number |-> i,
         character_sheet |-> [name |-> profile.nickname,
                              goals |-> profile.dream],
         dialogue_text |-> DialogueOf(i),
         emotional_tone |-> _determine_emotional_tone(i),
         music_url |-> <<"/src/assets/audio/background-music.mp3">>,
         tts_text |-> DialogueOf(i)]]

_generate_story_structure(profile, plan_ok) ==
    IF plan_ok THEN generate_story_plan(profile)
    ELSE _create_fallback_structure(profile)

\* SequentialStoryService._create_fallback_panel
Sequential_create_fallback_panel(panel_number) ==
    [panel_number |-> panel_number,
     image_url |-> <<>>,
     tts_url |-> <<>>,
     music_url |-> <<"/src/assets/audio/background-music.mp3">>,
     dialogue_text |-> _get_fallback_dialogue(panel_number),
     emotional_tone |-> "neutral"]

\* 2 second intervals
StaggerSeconds == 2

\* a variant that starts every pipeline at once
start_delay_none(i) == 0

\* `delay = (i - 1) * 2` for the i-th of basic_panels[1:], that is panel i + 1
start_delay(i) == (i - 1) * StaggerSeconds

\* a variant that announces the slideshow before panel 1 is processed
first_panel_events_early(sid, panel_events) ==
    <<Event("story_generation_start", 0, sid),
      Event("slideshow_start", 0, sid)>> \o panel_events

\* what generate_sequential_story emits up to slideshow_start
first_panel_events(sid, panel_events) ==
    <<Event("story_generation_start", 0, sid)>> \o panel_events
    \o <<Event("slideshow_start", 0, sid)>>

\* the pipeline of a remaining panel after its start event: content, assets,
\* panel_ready. fault: an exception that no handler of the pipeline recovers
\* is raised on entry to process_panel, before its try block
process_remaining_panel(panel_index, basic_panel, sid, e, llm, fault) ==
    LET panel_number == panel_index + 1
        detailed == _generate_panel_content(basic_panel, panel_number, llm)
        r == process_panel(detailed, sid, e)
    IN  IF fault
        THEN [raised |-> TRUE, panel |-> <<>>, events |-> <<>>,
              writes |-> <<>>]
        ELSE [raised |-> FALSE, panel |-> <<r.panel>>,
              events |-> r.events
                         \o <<Event("panel_ready", panel_number, sid)>>,
              writes |-> r.writes]

\* asyncio.gather without return_exceptions: the first exception propagates
gather_remaining_fail_fast(results) ==
    IF \E i \in 1..Len(results) : results[i].raised
    THEN [raised |-> TRUE, results |-> <<>>]
    ELSE [raised |-> FALSE, results |-> results]

\* asyncio.gather(*remaining_tasks, return_exceptions=True)
gather_remaining(results) == [raised |-> FALSE, results |-> results]

\* for i, result in enumerate(remaining_panels): the fallback panel i + 2
\* for an exception, else the result
AppendRemaining(results) ==
    [i \in 1..Len(results) |->
        IF results[i].raised THEN Sequential_create_fallback_panel(i + 1)
        ELSE results[i].panel[1]]

Get(panel, key) == IF key \in DOMAIN panel THEN panel[key] ELSE <<>>

\* the frontend format of the processed panels
frontend_panels(processed) ==
    [i \in 1..Len(processed) |->
        [id |-> i,
         imageUrl |-> Get(processed[i], "image_url"),
         narrationUrl |-> Get(processed[i], "tts_url"),
         backgroundMusicUrl |-> Get(processed[i], "music_url"),
         original_data |->
            [panel_number |-> processed[i].panel_number,
             dialogue_text |-> processed[i].dialogue_text,
             emotional_tone |-> processed[i].emotional_tone]]]

\* ------------------------------------------- exponential_backoff_async
\* Delays are counted in ticks of 1 / (2 * JitterSteps) second, so that
\* base_delay * (0.5 + random.random() * 0.5) is a whole number of ticks for
\* random.random() = k / JitterSteps, k in 0..JitterSteps - 1.

\* the values of random.random() the model draws: k / JitterSteps
JitterSteps == 2

RandomValues == 0..(JitterSteps - 1)

\* n seconds, in ticks
Seconds(n) == n * 2 * JitterSteps

\* an exception: its class and str(e)
Exc(cls, text) == [cls |-> cls, text |-> text]

\* the classes an exception of class cls is an instance of
Ancestors(cls) ==
    CASE cls = "RateLimitError" ->
             {"RateLimitError", "RetryableError", "Exception"}
      [] cls = "RetryableError" -> {"RetryableError", "Exception"}
      [] cls = "ValueError" -> {"ValueError", "Exception"}
      [] OTHER -> {"Exception"}

\* the argument retryable_exceptions: None or a tuple of classes
NoTypes == [none |-> TRUE, types |-> {}]

Types(S) == [none |-> FALSE, types |-> S]

\* `if retryable_exceptions is None: retryable_exceptions = (Exception,)`
DefaultRetryable(retryable_exceptions) ==
    IF retryable_exceptions.none THEN {"Exception"}
    ELSE retryable_exceptions.types

\* any(isinstance(e, exc_type) for exc_type in retryable_exceptions)
is_retryable(e, retryable_exceptions) ==
    \E exc_type \in retryable_exceptions : exc_type \in Ancestors(e.cls)

\* is_quota_exceeded of exponential_backoff_async
backoff_is_quota_exceeded(error_str) ==
    Contains(Lower(error_str), <<"quota", " ", "exceeded">>)

RECURSIVE Pow(_, _)
\* exponential_base ** attempt
Pow(b, n) == IF n = 0 THEN 1 ELSE b * Pow(b, n - 1)

Min(a, b) == IF a <= b THEN a ELSE b

\* a variant without the cap
base_delay_uncapped(r, quota) ==
    IF quota
    THEN r.initial_delay * Pow(r.exponential_base, r.attempt) * 2
    ELSE r.initial_delay * Pow(r.exponential_base, r.attempt)

\* base_delay, in seconds
base_delay(r, quota) ==
    IF quota
    THEN Min(r.initial_delay * Pow(r.exponential_base, r.attempt) * 2,
             r.max_delay * 2)
    ELSE Min(r.initial_delay * Pow(r.exponential_base, r.attempt),
             r.max_delay)

\* delay, in ticks, when random.random() returns k / JitterSteps
delay(r, quota, k) ==
    IF r.jitter THEN base_delay(r, quota) * (JitterSteps + k)
    ELSE Seconds(base_delay(r, quota))

\* `if not is_retryable and not is_rate_limit: raise e`
fatal(e, retryable_exceptions) ==
    ~is_retryable(e, retryable_exceptions) /\ ~is_rate_limit(e.text)

\* a variant that gives up one attempt early
exhausted_early(r) == r.attempt + 1 >= r.max_retries

\* `if attempt >= max_retries: raise e`
exhausted(r) == r.attempt >= r.max_retries


\* ---------------------------------------------- validate_story_consistency

\* the values a sheet has under the key 'name': none or one
NamesOf(sheet) == {it[2] : it \in {m \in sheet.items : m[1] = <<"name">>}}

\* the character names that occur in the records of a panel list: a record
\* without a character sheet, or whose sheet has no name, adds none
CharacterNames(panels) ==
    UNION { IF "character_sheet" \in DOMAIN panels[i]
            THEN NamesOf(panels[i].character_sheet)
            ELSE {} : i \in 1..Len(panels) }

\* validate_story_consistency(panels)
validate_story_consistency(panels) ==
    IF panels = <<>> \/ Len(panels) # 6 THEN FALSE
    ELSE Cardinality(CharacterNames(panels)) = 1

\* ------------------------------------------------------------- story ids
\* The event-loop clock is counted in ticks of 1 / TicksPerSecond second.

TicksPerSecond == 2

\* f"{t:.0f}" of the clock: the nearest whole second, a half to the even one
RoundedSeconds(t) ==
    LET q == t \div TicksPerSecond
        r == t % TicksPerSecond
    IN  IF 2 * r < TicksPerSecond THEN q
        ELSE IF 2 * r > TicksPerSecond THEN q + 1
        ELSE IF q % 2 = 0 THEN q ELSE q + 1

\* story_id = f"story_{asyncio.get_event_loop().time():.0f}"
StoryIdAt(t) == "story_" \o ToString(RoundedSeconds(t))

\* ------------------------------------------------------------- the state

VARIABLES
    parser,                 \* a StreamingPanelParser object
    llm_response,           \* the text the model generates for this call
    stream_error,           \* whether the stream has raised
    response_stream,        \* what the model stream has not delivered yet
    accumulated_full_text,  \* local of process_streaming_response
    yielded,                \* the panels the generator has yielded
    pc,                     \* where the driver is
    inputs,                 \* the StoryInputs of the story
    env,                    \* what the services do for the call under way
    panel_count,            \* local of generate_streaming_story
    processed_panels,       \* the list the orchestrator assembles
    events,                 \* what emit_progress has been given, in order
    storage_log,            \* the blobs written, in order
    story_id,               \* the id of the story under way
    panel_data,             \* argument of process_panel (none or one record)
    returned,               \* what process_panel returned (none or one)
    remaining,              \* sequential mode: the pipelines of panels 2..6
    llm_mode,               \* sequential mode: what llm.invoke does
    basic_panels,           \* sequential mode: the story structure
    elapsed,                \* sequential mode: seconds since the dispatch
    response,               \* the StoryGenerationResponse status
    retry,                  \* exponential_backoff_async: arguments, locals
    retry_log,              \* the calls of func and the sleeps, in order
    retry_outcome,          \* what exponential_backoff_async returned or raised
    raw_text,               \* argument of extract_all_panels_robust
    found,                  \* its result; argument of validate_and_enhance_dialogue
    enhanced,               \* its result
    final_panels,           \* argument of validate_story_consistency
    is_consistent,          \* what it returned (none or one boolean)
    loop_time,              \* the event-loop clock, in ticks
    running,                \* concurrent generations: status, story id, next panel
    writers,                \* the <<blob path, generation>> pairs written so far
    story_runs,             \* the calls of generate_streaming_story so far
    extract_results,        \* <<text, result>> of each call of
                            \* extract_all_panels_robust so far, in order
    plan_depth,             \* the activations of generate_story_plan on
                            \* the stack
    workflow,               \* the run of the manga workflow: its state
                            \* dict, the nodes run, the node to run next
                            \* and what generate_story gave
    voice                   \* the voice fields of the shared PanelProcessor,
                            \* the generations that use it and the calls of
                            \* generate_tts_audio so far

streamVars ==
    <<parser, llm_response, stream_error, response_stream,
      accumulated_full_text, yielded>>

storyVars == <<inputs, panel_count, processed_panels, response>>

ioVars == <<env, events, storage_log>>

panelVars == <<story_id, panel_data, returned>>

seqVars == <<remaining, llm_mode, basic_panels, elapsed>>

enhanceVars == <<raw_text, found, enhanced>>

retryVars == <<retry, retry_log, retry_outcome>>

validateVars == <<final_panels, is_consistent>>

clockVars == <<loop_time, running, writers>>

vars == <<parser, llm_response, stream_error, response_stream,
          accumulated_full_text, yielded, pc,
          inputs, env, panel_count, processed_panels, events, storage_log,
          story_id, panel_data, returned, remaining, llm_mode,
          basic_panels, elapsed, response, raw_text, found, enhanced,
          retry, retry_log, retry_outcome, final_panels, is_consistent,
          loop_time, running, writers, story_runs, extract_results, plan_depth, workflow, voice>>

\* the largest chunk, in atoms, that the stream cuts anywhere
MaxTok == 1

\* the sets of panels a response may carry
PanelSets == {1..6, {1, 2, 4}, {}}

\* CHARACTER_SHEET:\n{}\n and the blocks of the panels 1 and 2
EmptySheetText ==
    <<"CHARACTER_SHEET", ":", "\n", "{", "}", "\n">>
    \o Blocks({1, 2}, TRUE, 1)

\* the character sheet arrives after the block of panel 1
LateSheetText ==
    QuotedBlock(1, DialogueOf(1)) \o CharacterSection("Maya")
    \o QuotedBlock(2, DialogueOf(2))

\* a character sheet whose value opens `depth` arrays and closes none,
\* before the first panel
NestedSheetText(depth) ==
    <<"CHARACTER_SHEET", ":", "\n", "{", "\"", "name", "\"", ":", " ">>
    \o [i \in 1..depth |-> "["]
    \o <<"}", "\n">>
    \o Blocks({1}, TRUE, 1)

\* invalid JSON that json.loads rejects
BrokenSheetText == NestedSheetText(1)

\* more arrays than json.loads can descend
DeepSheetText == NestedSheetText(RecursionLimit + 1)

ResponseTexts ==
    {StoryText(S, TRUE, TRUE) : S \in PanelSets}
    \cup {StoryText({1, 2, 4}, TRUE, FALSE), StoryText(1..6, FALSE, FALSE)}
    \cup {EmptySheetText, LateSheetText, BrokenSheetText, DeepSheetText}

\* the chunk up to and including the next line break
LineLen(stream) ==
    IF \E i \in 1..Len(stream) : stream[i] = "\n"
    THEN CHOOSE i \in 1..Len(stream) :
             stream[i] = "\n" /\ \A j \in 1..(i - 1) : stream[j] # "\n"
    ELSE Len(stream)

\* the lengths the next chunk may have: a few atoms, a line, all the rest
ChunkLens(stream) ==
    {k \in 1..MaxTok : k <= Len(stream)} \cup {LineLen(stream), Len(stream)}

AllUp ==
    [image |-> <<>>, image_upload |-> TRUE, simplified |-> TRUE,
     fallback_upload |-> TRUE, tts |-> TRUE, tts_upload |-> TRUE,
     first |-> "image"]

Profiles ==
    { Profile(<<"Maya">>, <<"overcome shyness">>, <<"stressed">>),
      Profile(<<"Kenji">>, <<"become", " ", "a pilot">>, <<"calm">>) }

\* no call of exponential_backoff_async is under way
NoRetry ==
    [max_retries |-> 0, initial_delay |-> 0, max_delay |-> 0,
     exponential_base |-> 0, jitter |-> FALSE, retryable_exceptions |-> {},
     given |-> NoTypes, attempt |-> 0, last_exception |-> <<>>]

\* the values of the variables an operation does not use
IdleStream ==
    /\ parser = FreshParser
    /\ llm_response = <<>>
    /\ stream_error = FALSE
    /\ response_stream = <<>>
    /\ accumulated_full_text = <<>>
    /\ yielded = <<>>

IdleStory ==
    /\ inputs = NoInputs
    /\ panel_count = 0
    /\ processed_panels = <<>>
    /\ response = "none"

IdleIo ==
    /\ env = AllUp
    /\ events = <<>>
    /\ storage_log = <<>>

IdlePanel ==
    /\ story_id = "none"
    /\ panel_data = <<>>
    /\ returned = <<>>

IdleSeq ==
    /\ remaining = <<>>
    /\ llm_mode = "none"
    /\ basic_panels = <<>>
    /\ elapsed = 0

IdleRetry ==
    /\ retry = NoRetry
    /\ retry_log = <<>>
    /\ retry_outcome = <<>>

\* no run of the workflow yet
NoWorkflow ==
    [state |-> [status |-> "none", panels |-> <<>>, image_urls |-> <<>>,
                error |-> "none"],
     ran |-> <<>>, at |-> "none", result |-> "none"]

\* PanelProcessor.__init__: self.user_age = 16
default_user_age == 16

VoiceStories == {"A", "B"}

\* a generation that has not been called
NoStory ==
    [mode |-> "none", user_age |-> 0, user_gender |-> "none",
     pending |-> {}, current |-> 0]

\* the processor as constructed, no generation, no synthesis
NoVoice ==
    [processor |-> [user_age |-> default_user_age,
                    user_gender |-> "non-binary"],
     stories |-> [s \in VoiceStories |-> NoStory],
     tts_calls |-> <<>>]

IdleClock ==
    /\ loop_time = 0
    /\ running = <<>>
    /\ writers = {}
    /\ story_runs = 0
    /\ extract_results = <<>>
    /\ plan_depth = 0
    /\ workflow = NoWorkflow
    /\ voice = NoVoice

IdleValidate ==
    /\ final_panels = <<>>
    /\ is_consistent = <<>>

IdleEnhance ==
    /\ raw_text = <<>>
    /\ found = EmptyDict
    /\ enhanced = EmptyDict

\* ------------------------------ specification of process_streaming_response

InitParser ==
    /\ pc = "idle"
    /\ IdleStream /\ IdleStory /\ IdleIo /\ IdlePanel /\ IdleSeq
    /\ IdleEnhance /\ IdleRetry /\ IdleValidate /\ IdleClock

\* process_streaming_response is called: self.reset()
PSR_Call ==
    /\ pc \in {"idle", "psr_done", "psr_raised"}
    /\ \E text \in ResponseTexts :
          /\ llm_response' = text
          /\ response_stream' = text
    /\ stream_error' = FALSE
    /\ parser' = FreshParser
    /\ accumulated_full_text' = <<>>
    /\ yielded' = <<>>
    /\ pc' = "psr_loop"
    /\ UNCHANGED <<storyVars, ioVars, panelVars, seqVars, enhanceVars, retryVars, validateVars, clockVars, story_runs, extract_results, plan_depth, workflow, voice>>

\* the generator ends with the code after the loop, which returned a
PSR_Return(a, sofar) ==
    /\ parser' = a.ps
    /\ yielded' = sofar \o a.out
    /\ pc' = "psr_done"

\* process_token returned r for the chunk of k atoms: the yield, and the
\* break with the code after the loop
PSR_Yield(k, full, r) ==
    /\ response_stream' =
           SubSeq(response_stream, k + 1, Len(response_stream))
    /\ accumulated_full_text' = full
    /\ IF r.ps.current_panel > max_panels
       THEN PSR_Return(AfterStream(r.ps, full), yielded \o r.out)
       ELSE /\ parser' = r.ps
            /\ yielded' = yielded \o r.out
            /\ pc' = "psr_loop"

\* one pass of the async for: a chunk arrives and process_token reads it
PSR_Chunk ==
    /\ pc = "psr_loop"
    /\ response_stream # <<>>
    /\ \E k \in ChunkLens(response_stream) :
          /\ ~process_token_raises(parser, SubSeq(response_stream, 1, k))
          /\ PSR_Yield(k,
                       accumulated_full_text \o SubSeq(response_stream, 1, k),
                       process_token(parser, SubSeq(response_stream, 1, k)))
    /\ UNCHANGED <<llm_response, stream_error>>
    /\ UNCHANGED <<storyVars, ioVars, panelVars, seqVars, enhanceVars, retryVars, validateVars, clockVars, story_runs, extract_results, plan_depth, workflow, voice>>

\* the stream ends: the code after the loop
PSR_End ==
    /\ pc = "psr_loop"
    /\ response_stream = <<>>
    /\ PSR_Return(AfterStream(parser, accumulated_full_text), yielded)
    /\ UNCHANGED <<llm_response, stream_error, response_stream,
                   accumulated_full_text>>
    /\ UNCHANGED <<storyVars, ioVars, panelVars, seqVars, enhanceVars, retryVars, validateVars, clockVars, story_runs, extract_results, plan_depth, workflow, voice>>

\* process_token raises on the chunk: `except Exception` of
\* process_streaming_response logs and raises again
PSR_TokenRaises ==
    /\ pc = "psr_loop"
    /\ response_stream # <<>>
    /\ \E k \in ChunkLens(response_stream) :
          /\ process_token_raises(parser, SubSeq(response_stream, 1, k))
          /\ response_stream' =
                 SubSeq(response_stream, k + 1, Len(response_stream))
          /\ accumulated_full_text' =
                 accumulated_full_text \o SubSeq(response_stream, 1, k)
          /\ parser' = AfterRaise(parser, SubSeq(response_stream, 1, k))
    /\ pc' = "psr_raised"
    /\ UNCHANGED <<llm_response, stream_error, yielded>>
    /\ UNCHANGED <<storyVars, ioVars, panelVars, seqVars, enhanceVars,
                   retryVars, validateVars, clockVars, story_runs, extract_results, plan_depth, workflow, voice>>

NextParser == PSR_Call \/ PSR_Chunk \/ PSR_End \/ PSR_TokenRaises

\* C28: process_token and process_streaming_response never raise, whatever
\* the tokens are: arbitrary text, unbalanced braces, invalid JSON in a global
\* section, missing or misnumbered labels, the empty stream.
C28_NeverRaises ==
    pc # "psr_raised"

\* invalid JSON that json.loads rejects with JSONDecodeError is survived:
\* a response whose sections stay within the nesting limit never raises
C28_ShallowNeverRaises ==
    llm_response # DeepSheetText => pc # "psr_raised"

SpecParser == InitParser /\ [][NextParser]_vars

\* ------------------------------------------------- properties: the parser

\* the whole response: what was delivered and what the break left unread
WholeResponse == llm_response

\* all six panels are present as well-formed blocks with quoted dialogue
HasAllSix(text) ==
    \A n \in 1..6 : Contains(text, QuotedBlock(n, DialogueOf(n)))

\* C1: for every response that carries the six well-formed panel blocks and
\* every cutting of it into chunks, process_streaming_response yields exactly
\* six panel records, numbered 1, 2, ..., 6 in that order, each with a
\* dialogue_text longer than the 10-character threshold.
C1_SixPanelsInOrder ==
    (pc = "psr_done" /\ HasAllSix(WholeResponse)) =>
        /\ Len(yielded) = max_panels
        /\ \A i \in 1..Len(yielded) :
              /\ yielded[i].panel_number = i
              /\ PyLen(yielded[i].dialogue_text) > MinDialogueLen

\* C2: process_token returns a panel record only when the text extracted for
\* the expected panel is longer than 10 characters: no panel is ever emitted
\* with a short text, such as the truncated beginning of a dialogue_text whose
\* end has not arrived yet.
C2_QualityGate ==
    pc \in {"psr_loop", "psr_done"} =>
        \A i \in 1..Len(yielded) :
            PyLen(yielded[i].dialogue_text) > MinDialogueLen

\* C3: when the stream has ended with fewer than six panels recognised by
\* process_token, the robust pass runs and the missing panels are yielded, so
\* that the consumer has received six panels with non-trivial narration.
C3_RecoveryYieldsMissing ==
    (/\ pc = "psr_done"
     /\ accumulated_full_text # <<>>
     /\ parser.current_panel <= max_panels) =>
        /\ Len(yielded) = max_panels
        /\ \A i \in 1..Len(yielded) : yielded[i].dialogue_text # <<>>

\* the three global sections of a parser
SectionsOf(ps) == <<ps.character_sheet, ps.prop_sheet, ps.style_guide>>

\* a step of the loop in which process_token reads a chunk
TokenStep == pc = "psr_loop" /\ response_stream # <<>>

\* C21 as stated: once a global section of the parser is not None, no later
\* process_token call changes it.
C21_FrozenOnceNotNone ==
    [][TokenStep =>
          \A k \in 1..3 :
              ~SectionsOf(parser)[k].none =>
                  SectionsOf(parser')[k] = SectionsOf(parser)[k]]_vars

\* C21: once a global section of the parser is a non-empty record, parsed
\* from the stream or substituted as a placeholder, no later process_token
\* call changes it, and all the panels emitted by one run of the parser
\* carry the same three records.
C21_FrozenOnceFilled ==
    [][TokenStep =>
          /\ \A k \in 1..3 :
                Truthy(SectionsOf(parser)[k]) =>
                    SectionsOf(parser')[k] = SectionsOf(parser)[k]
          /\ \A i, j \in 1..Len(yielded') :
                SectionsOf(yielded'[i]) = SectionsOf(yielded'[j])]_vars

\* two panels were emitted after the placeholder for the character sheet was
\* substituted and the sheet of the model arrived behind the first of them
C21_Witness ==
    /\ llm_response = LateSheetText
    /\ Len(yielded) = 2
    /\ parser.character_sheet = PlaceholderCharacter
    /\ yielded[2].character_sheet = PlaceholderCharacter

\* the chunk that the step hands to process_token
TokenRead ==
    SubSeq(response_stream, 1, Len(response_stream) - Len(response_stream'))

\* C22: when process_token returns a panel record, afterwards the text
\* buffer is empty, the three global sections are those of the record, the
\* expected index is one more and completed_panels has grown by that one
\* record; when it returns None, the expected index and completed_panels are
\* unchanged and the buffer has grown by exactly the token.
C22_TokenEffect ==
    [][TokenStep =>
          IF Len(yielded') > Len(yielded)
          THEN /\ Len(yielded') = Len(yielded) + 1
               /\ parser'.accumulated_text = <<>>
               /\ SectionsOf(parser') = SectionsOf(yielded'[Len(yielded')])
               /\ parser'.current_panel = parser.current_panel + 1
               /\ parser'.completed_panels =
                      Append(parser.completed_panels, yielded'[Len(yielded')])
          ELSE /\ parser'.current_panel = parser.current_panel
               /\ parser'.completed_panels = parser.completed_panels
               /\ parser'.accumulated_text =
                      parser.accumulated_text \o TokenRead]_vars

\* panel 1 was returned and a later token, for which None was returned, is
\* in the buffer
C22_Witness ==
    /\ pc = "psr_loop"
    /\ Len(yielded) = 1
    /\ parser.current_panel = 2
    /\ Len(parser.completed_panels) = 1
    /\ parser.accumulated_text # <<>>

\* ------------------------- specification of the parser driven method by method
\* process_token is called on the chunks of a text, as
\* generate_streaming_story calls it (no test of the expected index between
\* the calls), and _extract_remaining_panels_robust is called at most once,
\* after any of them, on the text fed so far.

DirectTexts ==
    { StoryText(1..7, TRUE, FALSE), StoryText({1, 2, 4}, TRUE, FALSE),
      StoryText({2, 3}, TRUE, TRUE), <<>> }

\* a fresh parser and a text to feed
DirectStart ==
    /\ pc = "idle"
    /\ \E text \in DirectTexts :
          /\ llm_response' = text
          /\ response_stream' = text
    /\ parser' = FreshParser
    /\ accumulated_full_text' = <<>>
    /\ pc' = "direct_tokens"
    /\ UNCHANGED <<stream_error, yielded, storyVars, ioVars, panelVars,
                   seqVars, enhanceVars, retryVars, validateVars, clockVars,
                   story_runs, extract_results, plan_depth, workflow, voice>>

\* await parser.process_token(token)
DirectToken ==
    /\ pc = "direct_tokens"
    /\ response_stream # <<>>
    /\ \E k \in ChunkLens(response_stream) :
          /\ ~process_token_raises(parser, SubSeq(response_stream, 1, k))
          /\ parser' =
                 process_token(parser, SubSeq(response_stream, 1, k)).ps
          /\ accumulated_full_text' =
                 accumulated_full_text \o SubSeq(response_stream, 1, k)
          /\ response_stream' =
                 SubSeq(response_stream, k + 1, Len(response_stream))
    /\ UNCHANGED <<llm_response, stream_error, yielded, pc, storyVars,
                   ioVars, panelVars, seqVars, enhanceVars, retryVars,
                   validateVars, clockVars, story_runs, extract_results, plan_depth, workflow, voice>>

\* await parser._extract_remaining_panels_robust(full_text)
DirectRobust ==
    /\ pc = "direct_tokens"
    /\ parser' =
           _extract_remaining_panels_robust(parser, accumulated_full_text)
    /\ pc' = "direct_done"
    /\ UNCHANGED <<llm_response, stream_error, response_stream,
                   accumulated_full_text, yielded, storyVars, ioVars,
                   panelVars, seqVars, enhanceVars, retryVars, validateVars,
                   clockVars, story_runs, extract_results, plan_depth, workflow, voice>>

NextDirect == DirectStart \/ DirectToken \/ DirectRobust

SpecDirect == InitParser /\ [][NextDirect]_vars

\* the i-th record of completed_panels is the record of panel i
Contiguous(completed) ==
    \A i \in 1..Len(completed) : completed[i].panel_number = i

\* C31: after any sequence of process_token calls followed by at most one
\* _extract_remaining_panels_robust pass, the i-th record of completed_panels
\* (counted from 1) is the record of panel i, and after the robust pass the
\* list has exactly 6 records.
C31_ContiguousAndSix ==
    /\ Contiguous(parser.completed_panels)
    /\ pc = "direct_done" => Len(parser.completed_panels) = max_panels

\* the order alone, which no call breaks
C31_ContiguousAlways ==
    Contiguous(parser.completed_panels)

\* in process_streaming_response, whose loop breaks once the expected index
\* exceeds max_panels, the list is in order and a robust pass leaves 6 records
C31_InResponse ==
    /\ Contiguous(parser.completed_panels)
    /\ (pc = "psr_done" /\ accumulated_full_text # <<>>) =>
           Len(parser.completed_panels) = max_panels

\* ------------------------- specification of validate_and_enhance_dialogue
\* The function is pure: the initial states draw its arguments, the one
\* action applies it.

FoundKeys == {1, 3, 6, 7}

\* 20 characters: not longer than the threshold
TwentyChars == <<"Maya", " ", "keeps going", " ", "now">>

FoundTexts == {<<>>, ShortDialogueOf(1), TwentyChars, DialogueOf(2)}

FoundMaps == UNION {[D -> FoundTexts] : D \in SUBSET FoundKeys}

InitEnhance ==
    /\ pc = "enhance_call"
    /\ raw_text = <<>>
    /\ found \in FoundMaps
    /\ inputs \in Profiles \cup {NoInputs}
    /\ enhanced = EmptyDict
    /\ panel_count = 0
    /\ processed_panels = <<>>
    /\ response = "none"
    /\ IdleStream /\ IdleIo /\ IdlePanel /\ IdleSeq /\ IdleRetry /\ IdleValidate /\ IdleClock

Enhance ==
    /\ pc = "enhance_call"
    /\ enhanced' = validate_and_enhance_dialogue(found, inputs)
    /\ pc' = "enhance_done"
    /\ UNCHANGED <<streamVars, storyVars, ioVars, panelVars, seqVars,
                   raw_text, found, retryVars, validateVars, clockVars, story_runs, extract_results, plan_depth, workflow, voice>>

NextEnhance == Enhance

SpecEnhance == InitEnhance /\ [][NextEnhance]_vars

\* the template of index i for the profile of the call
TemplateOf(i) ==
    fallback_dialogues(NameOf(inputs), DreamOf(inputs), MoodOf(inputs))[i]

\* C8: for every map `found`, whatever its keys and the lengths of its
\* texts, the result has exactly the keys 1..6; each value is found[i]
\* unchanged when found[i] is present and longer than 20 characters, and the
\* template of index i otherwise; no value is empty or 20 characters or less.
C8_SixSubstantialValues ==
    pc = "enhance_done" =>
        /\ DOMAIN enhanced = 1..6
        /\ \A i \in 1..6 :
              /\ IF i \in DOMAIN found /\ PyLen(found[i]) > SubstantialLen
                 THEN enhanced[i] = found[i]
                 ELSE enhanced[i] = TemplateOf(i)
              /\ PyLen(enhanced[i]) > SubstantialLen

\* a call whose map has a long text kept, a short text replaced, a text of
\* exactly 20 characters and a key outside 1..6
C8_Witness ==
    /\ pc = "enhance_done"
    /\ 7 \in DOMAIN found
    /\ 1 \in DOMAIN found /\ found[1] = DialogueOf(2) /\ enhanced[1] = found[1]
    /\ 3 \in DOMAIN found /\ found[3] = ShortDialogueOf(1)
    /\ enhanced[3] = TemplateOf(3)
    /\ 6 \in DOMAIN found /\ found[6] = TwentyChars
    /\ enhanced[6] = TemplateOf(6)

StoryIds == {"story_100", "story_101"}

ImageErrors == {E429, ERateLimit, EConnection}

PanelEnvs ==
    [image : {<<>>} \cup ImageErrors, image_upload : BOOLEAN,
     simplified : BOOLEAN, fallback_upload : BOOLEAN, tts : BOOLEAN,
     tts_upload : BOOLEAN, first : {"image", "tts"}]

\* a parser whose sheets are the placeholders
PlaceholderSheets ==
    [FreshParser EXCEPT !.character_sheet = PlaceholderCharacter,
                        !.prop_sheet = PlaceholderProp,
                        !.style_guide = PlaceholderStyle]

InputPanels == {PanelRecord(n, PlaceholderSheets, DialogueOf(n)) : n \in {1, 3, 6}}

InitPanel ==
    /\ pc = "idle"
    /\ IdleStream /\ IdleStory /\ IdleIo /\ IdlePanel /\ IdleSeq
    /\ IdleEnhance /\ IdleRetry /\ IdleValidate /\ IdleClock

\* one call of process_panel, from its start event to its return
ProcessPanel ==
    /\ pc = "idle"
    /\ \E panel \in InputPanels, sid \in StoryIds, e \in PanelEnvs :
          LET r == process_panel(panel, sid, e)
          IN  /\ panel_data' = <<panel>>
              /\ story_id' = sid
              /\ env' = e
              /\ returned' = <<r.panel>>
              /\ events' = r.events
              /\ storage_log' = r.writes
    /\ pc' = "panel_done"
    /\ UNCHANGED <<streamVars, storyVars, seqVars, enhanceVars, retryVars, validateVars, clockVars, story_runs, extract_results, plan_depth, workflow, voice>>

NextPanel == ProcessPanel

SpecPanel == InitPanel /\ [][NextPanel]_vars

Emitted(type) ==
    \E i \in 1..Len(events) :
        /\ events[i].event_type = type
        /\ events[i].panel_number = panel_data[1].panel_number
        /\ events[i].story_id = story_id

ImageUrlOfCall == SignedUrl(image_filename(story_id, panel_data[1].panel_number))

TtsUrlOfCall == SignedUrl(tts_filename(story_id, panel_data[1].panel_number))

\* C6: process_panel joins the image branch and the TTS branch without
\* fail-fast: whatever the two branches do, it returns a record; the slot of
\* a branch that failed is the empty string and its error event was emitted,
\* the slot of a branch that succeeded holds the URL of that branch, and
\* panel_processing_complete is emitted.
C6_PerAssetIsolation ==
    pc = "panel_done" =>
        /\ Len(returned) = 1
        /\ returned[1].panel_number = panel_data[1].panel_number
        /\ returned[1].dialogue_text = panel_data[1].dialogue_text
        /\ Emitted("panel_processing_complete")
        /\ ~Emitted("panel_processing_error")
        /\ IF Emitted("image_generation_error")
           THEN returned[1].image_url = <<>>
           ELSE /\ returned[1].image_url = ImageUrlOfCall
                /\ Emitted("image_generation_complete")
        /\ IF Emitted("tts_generation_error")
           THEN returned[1].tts_url = <<>>
           ELSE /\ returned[1].tts_url = TtsUrlOfCall
                /\ Emitted("tts_generation_complete")
        /\ (env.image = <<>> /\ env.image_upload)
              => returned[1].image_url = ImageUrlOfCall
        /\ (env.image = EConnection \/ (env.image = <<>> /\ ~env.image_upload))
              => returned[1].image_url = <<>>
        /\ (env.tts /\ env.tts_upload) <=> returned[1].tts_url = TtsUrlOfCall
        /\ (env.tts /\ env.tts_upload) <=> returned[1].tts_url # <<>>

\* the image branch failed and the TTS branch succeeded
C6_Witness ==
    /\ pc = "panel_done"
    /\ Emitted("image_generation_error")
    /\ returned[1].image_url = <<>>
    /\ returned[1].tts_url = TtsUrlOfCall
    /\ Emitted("panel_processing_complete")

\* C7: when image generation raises a rate-limit error and generation with
\* the simplified prompt raises too, process_panel returns a record whose
\* image reference is not empty and whose narration-audio reference is what
\* the TTS branch produced.
C7_PlaceholderAfterRateLimit ==
    (/\ pc = "panel_done"
     /\ env.image # <<>>
     /\ is_rate_limit(env.image)
     /\ ~env.simplified) =>
        /\ returned[1].image_url # <<>>
        /\ returned[1].tts_url =
              (IF env.tts /\ env.tts_upload THEN TtsUrlOfCall ELSE <<>>)

\* the positions of the events of a type in the events of the call
PositionsOf(type) == {i \in 1..Len(events) : events[i].event_type = type}

\* the branch emitted its start once and afterwards exactly one terminal
\* event, complete or error, both behind panel_processing_start and before
\* every panel_processing_complete
BranchProtocol(branch) ==
    LET starts    == PositionsOf(branch \o "_generation_start")
        terminals == PositionsOf(branch \o "_generation_complete")
                         \cup PositionsOf(branch \o "_generation_error")
    IN  /\ Cardinality(starts) = 1
        /\ Cardinality(terminals) = 1
        /\ \A i \in starts, j \in terminals : i < j
        /\ \A i \in starts, j \in PositionsOf("panel_processing_start") :
              j < i
        /\ \A i \in terminals, j \in PositionsOf("panel_processing_complete") :
              i < j

\* C23: in the events of one process_panel call panel_processing_start comes
\* before every branch event; each of the two branches (image, tts) emits its
\* start and then exactly one of complete and error; panel_processing_complete
\* comes only after the terminal events of both branches; and every event
\* carries the panel index and the story id of the call.
C23_EventProtocol ==
    pc = "panel_done" =>
        /\ PositionsOf("panel_processing_start") = {1}
        /\ BranchProtocol("image")
        /\ BranchProtocol("tts")
        /\ \A i \in 1..Len(events) :
              /\ events[i].panel_number = panel_data[1].panel_number
              /\ events[i].story_id = story_id

\* the image branch ended with its error event and the TTS branch, which
\* started first, with its complete event, before panel_processing_complete
C23_Witness ==
    /\ pc = "panel_done"
    /\ env.first = "tts"
    /\ PositionsOf("tts_generation_complete") = {3}
    /\ PositionsOf("image_generation_error") = {5}
    /\ PositionsOf("panel_processing_complete") = {6}

\* ------------------------------------ specification of the streaming mode
\* StoryService.generate_streaming_story: the generator
\* StreamingStoryGenerator.generate_streaming_story feeds
\* PanelProcessor.process_panels_streaming, which processes each panel to its
\* end before it asks the generator for the next one.

StreamTexts ==
    { StoryText(1..6, TRUE, TRUE), StoryText({1, 2, 4}, TRUE, FALSE),
      StoryText(1..7, TRUE, FALSE), <<>> }

ImageDown == [AllUp EXCEPT !.image = EConnection]

StoryEnvs == {AllUp, ImageDown}

\* the profile of the streamed stories
StreamProfiles == {Profile(<<"Maya">>, <<"overcome shyness">>, <<"stressed">>)}

\* a story-level event carries no panel number: 0
StoryEvent(type, sid) == Event(type, 0, sid)

Init ==
    /\ pc = "idle"
    /\ IdleStream /\ IdleStory /\ IdleIo /\ IdlePanel /\ IdleSeq
    /\ IdleEnhance /\ IdleRetry /\ IdleValidate /\ IdleClock

\* generate_streaming_story of the story service starts: the start event,
\* the generator and the stream are created; the generator's parser is the
\* one made when the service was constructed
GSS_CallWith(texts, envs) ==
    /\ inputs' \in StreamProfiles
    /\ env' \in envs
    /\ \E text \in texts :
          /\ llm_response' = text
          /\ response_stream' = text
    /\ stream_error' = FALSE
    /\ \E sid \in {"story_100"} :
          /\ story_id' = sid
          /\ events' = <<StoryEvent("story_generation_start", sid)>>
    /\ panel_count' = 0
    /\ processed_panels' = <<>>
    /\ storage_log' = <<>>
    /\ response' = "running"
    /\ pc' = "gss_loop"
    /\ UNCHANGED <<parser, accumulated_full_text, yielded, panel_data,
                   returned, seqVars, enhanceVars, retryVars, validateVars,
                   clockVars, extract_results, plan_depth, workflow, voice>>

\* the first request that the service handles
GSS_Call ==
    /\ pc = "idle"
    /\ GSS_CallWith(StreamTexts, StoryEnvs)
    /\ UNCHANGED story_runs

\* the panels just yielded have been processed: the lists grow
Processed(done, before, after) ==
    /\ processed_panels' = processed_panels \o done.panels
    /\ events' = events \o before \o done.events \o after
    /\ storage_log' = storage_log \o done.writes

\* `if panel_data:` panel_ready, the yield, and process_panel on the panel
GSS_Yield(k, r) ==
    /\ response_stream' =
           SubSeq(response_stream, k + 1, Len(response_stream))
    /\ parser' = r.ps
    /\ panel_count' = panel_count + Len(r.out)
    /\ Processed(ProcessAll(r.out, story_id, env),
                 IF r.out = <<>> THEN <<>>
                 ELSE <<Event("panel_ready", r.out[1].panel_number,
                              story_id)>>,
                 <<>>)

\* one pass of the async for of the generator: process_token on the chunk
\* and, when a panel is complete, panel_ready, the yield and process_panel
\* (the texts of this specification carry no nested arrays, so process_token
\* returns on every chunk)
GSS_Chunk ==
    /\ pc = "gss_loop"
    /\ response_stream # <<>>
    /\ \E k \in ChunkLens(response_stream) :
          GSS_Yield(k, process_token(parser, SubSeq(response_stream, 1, k)))
    /\ UNCHANGED <<llm_response, stream_error, accumulated_full_text,
                   yielded, pc, inputs, env, story_id, panel_data, returned,
                   response, seqVars, enhanceVars, retryVars, validateVars, clockVars, story_runs, extract_results, plan_depth, workflow, voice>>

\* the rest of the story once the generator has yielded `panels` and ended:
\* they are processed, the response is assembled and reported
FinishStory(panels) ==
    /\ panel_count' = panel_count + Len(panels)
    /\ Processed(ProcessAll(panels, story_id, env), <<>>,
                 <<StoryEvent("story_generation_complete", story_id)>>)
    /\ response' = "completed"
    /\ pc' = "story_done"
    /\ UNCHANGED <<parser, llm_response, response_stream,
                   accumulated_full_text, yielded, inputs, env, story_id,
                   panel_data, returned, seqVars, enhanceVars, retryVars, validateVars, clockVars, story_runs, extract_results, plan_depth, workflow, voice>>

\* the stream is exhausted: the code after the loop
GSS_End ==
    /\ pc = "gss_loop"
    /\ response_stream = <<>>
    /\ FinishStory(AfterLoop(parser, panel_count, inputs))
    /\ UNCHANGED stream_error

\* the stream raises instead of delivering the next chunk: the except handler
GSS_StreamRaises ==
    /\ pc = "gss_loop"
    /\ stream_error' = TRUE
    /\ FinishStory(ExceptPanels(inputs))

Next == GSS_Call \/ GSS_Chunk \/ GSS_End \/ GSS_StreamRaises

Spec == Init /\ [][Next]_vars

\* ------------------- specification of the requests handled one after another
\* The service object is built once (story_service.py:566) and with it the
\* generator and its parser (streaming_parser.py:272): every request runs
\* generate_streaming_story on the same generator.

MaxRuns == 2

\* the answers of the model in this specification: the first panel alone,
\* and the first two panels after the character sheet
ReuseTexts == {StoryText({1}, TRUE, FALSE), StoryText({1, 2}, TRUE, TRUE)}

\* a request arrives when the service is idle or has finished a story
GSS_NextCall ==
    /\ pc \in {"idle", "story_done"}
    /\ story_runs < MaxRuns
    /\ story_runs' = story_runs + 1
    /\ GSS_CallWith(ReuseTexts, {AllUp})

NextReuse == GSS_NextCall \/ GSS_Chunk \/ GSS_End \/ GSS_StreamRaises

SpecReuse == Init /\ [][NextReuse]_vars

\* a run of generate_streaming_story has taken no chunk from its stream yet
RunStarts ==
    /\ pc = "gss_loop"
    /\ response_stream = llm_response
    /\ panel_count = 0

\* C27: every run of generate_streaming_story starts from a fresh parser
\* state (expected index 1, empty buffer, no global sections, no completed
\* panels), also when another story ran to completion on the same generator
\* before it.
C27_FreshParserPerRun ==
    RunStarts => parser = FreshParser

\* the first run of a generator does start from the fresh state
C27_FreshParserFirstRun ==
    (RunStarts /\ story_runs = 1) => parser = FreshParser

\* ---------------------------------------- properties: the streaming mode

PanelNumbers(panels) == {panels[i].panel_number : i \in 1..Len(panels)}

\* C4: whatever the stream does, and also when it raises after some panels
\* have been yielded, the list that process_panels_streaming collects from
\* generate_streaming_story has exactly six panels, one for each panel index
\* 1..6 and none repeated.
C4_ExactlySixEntries ==
    pc = "story_done" =>
        /\ Len(processed_panels) = max_panels
        /\ PanelNumbers(processed_panels) = 1..max_panels

\* the response that carries the panels 1, 2 and 4 only, in valid format
PartialResponse == StoryText({1, 2, 4}, TRUE, FALSE)

\* C10: for a response that carries only the panels 1, 2 and 4 in valid
\* format, the result of the streaming mode has 6 panels; the panels 1, 2 and
\* 4 carry their extracted text verbatim and the panels 3, 5 and 6 carry
\* fallback text that contains the name and the goal of the profile.
C10_PartialStream ==
    (pc = "story_done" /\ ~stream_error /\ llm_response = PartialResponse) =>
        /\ Len(processed_panels) = max_panels
        /\ \A i \in 1..Len(processed_panels) :
              /\ processed_panels[i].panel_number = i
              /\ i \in {1, 2, 4} =>
                    processed_panels[i].dialogue_text = DialogueOf(i)
              /\ i \in {3, 5, 6} =>
                    /\ Contains(processed_panels[i].dialogue_text,
                                inputs.nickname)
                    /\ Contains(processed_panels[i].dialogue_text,
                                inputs.dream)

\* the panel indices in the order in which process_panels_streaming hands the
\* panels to process_panel (each panel taken from the generator is processed
\* and appended before the next one is taken)
HandedOver == [i \in 1..Len(processed_panels) |->
                  processed_panels[i].panel_number]

\* C18: in the streaming mode the panels reach process_panel in strictly
\* increasing panel index: every panel handed over has a larger index than
\* the panel handed over before it, the fallback panels that the generator
\* yields after the stream included.
C18_IncreasingIndex ==
    \A i \in 1..(Len(HandedOver) - 1) : HandedOver[i] < HandedOver[i + 1]

\* the same order for the runs whose stream did not raise
C18_IncreasingWithoutRaise ==
    ~stream_error => C18_IncreasingIndex

\* C29: the panel indices are bounded, also when generate_streaming_story
\* drives process_token on a stream that goes on with PANEL_7 after the
\* sixth panel: no record with a panel number outside 1..6 is emitted and the
\* expected index of the parser never exceeds 7.
C29_BoundedIndex ==
    /\ parser.current_panel <= max_panels + 1
    /\ \A i \in 1..Len(processed_panels) :
          processed_panels[i].panel_number \in 1..max_panels

\* the same bound for the records that process_streaming_response yields,
\* whose loop breaks once the expected index exceeds max_panels
C29_BoundedInResponse ==
    /\ parser.current_panel <= max_panels + 1
    /\ \A i \in 1..Len(yielded) : yielded[i].panel_number \in 1..max_panels

\* the three sheets of a record
SheetsOf(panel) ==
    <<panel.character_sheet, panel.prop_sheet, panel.style_guide>>

\* C19: in the panel list that the streaming mode assembles all the records
\* carry the same character, prop and style sheets, so exactly one character
\* name occurs in them; also when some panels were parsed from the stream and
\* the others are fallback panels.
C19_SameSheets ==
    pc = "story_done" =>
        /\ \A i, j \in 1..Len(processed_panels) :
              SheetsOf(processed_panels[i]) = SheetsOf(processed_panels[j])
        /\ Cardinality(CharacterNames(processed_panels)) = 1

\* ------------------------------- specification of the sequential mode
\* SequentialStoryService.generate_sequential_story: panel 1 is processed to
\* its end, then the pipelines of the panels 2..6 run concurrently (each
\* starts after its delay and ends at any time), and the results are joined.

RemainingPanels == 2..max_panels

LlmModes == {"full", "short", "raises"}

InitSeq ==
    /\ pc = "idle"
    /\ IdleStream /\ IdleStory /\ IdleIo /\ IdlePanel /\ IdleSeq
    /\ IdleEnhance /\ IdleRetry /\ IdleValidate /\ IdleClock

\* from the call to the start of the slideshow: the start event, the story
\* structure, the content and the assets of panel 1, slideshow_start
GSQ_Call ==
    /\ pc = "idle"
    /\ \E profile \in StreamProfiles, e \in StoryEnvs, mode \in LlmModes,
          plan_ok \in BOOLEAN, sid \in {"story_100"} :
          LET basic == _generate_story_structure(profile, plan_ok)
              detailed_panel_1 == _generate_panel_content(basic[1], 1, mode)
              complete_panel_1 == process_panel(detailed_panel_1, sid, e)
          IN  /\ inputs' = profile
              /\ env' = e
              /\ llm_mode' = mode
              /\ story_id' = sid
              /\ basic_panels' = basic
              /\ processed_panels' = <<complete_panel_1.panel>>
              /\ events' = first_panel_events(sid, complete_panel_1.events)
              /\ storage_log' = complete_panel_1.writes
    /\ remaining' = [k \in RemainingPanels |->
                        [status |-> "waiting", raised |-> FALSE,
                         panel |-> <<>>, delay |-> start_delay(k - 1)]]
    /\ elapsed' = 0
    /\ response' = "running"
    /\ pc' = "seq_gather"
    /\ UNCHANGED <<streamVars, panel_count, panel_data, returned,
                   enhanceVars, retryVars, validateVars, clockVars, story_runs, extract_results, plan_depth, workflow, voice>>

\* a second passes while some process_with_delay is still asleep
GSQ_Tick ==
    /\ pc = "seq_gather"
    /\ \E k \in RemainingPanels :
          remaining[k].status = "waiting" /\ elapsed < remaining[k].delay
    /\ elapsed' = elapsed + 1
    /\ UNCHANGED <<streamVars, storyVars, ioVars, panelVars, remaining,
                   llm_mode, basic_panels, pc, enhanceVars, retryVars, validateVars, clockVars, story_runs, extract_results, plan_depth, workflow, voice>>

\* process_with_delay of panel k wakes from asyncio.sleep(delay_seconds), or
\* runs on at once when its delay is 0: process_remaining_panel emits its
\* start event.  The event loop wakes the sleepers that are due in the order
\* of their deadlines
GSQ_PanelStart(k) ==
    /\ pc = "seq_gather"
    /\ remaining[k].status = "waiting"
    /\ elapsed >= remaining[k].delay
    /\ \A j \in RemainingPanels :
          remaining[j].status = "waiting"
              => remaining[j].delay >= remaining[k].delay
    /\ events' = events \o <<Event("panel_processing_start", k, story_id)>>
    /\ remaining' = [remaining EXCEPT ![k].status = "started"]
    /\ UNCHANGED <<streamVars, storyVars, env, storage_log, panelVars,
                   llm_mode, basic_panels, elapsed, pc, enhanceVars,
                   retryVars, validateVars, clockVars, story_runs, extract_results, plan_depth, workflow, voice>>

\* the pipeline of panel k runs to its end: it returns its panel or raises
GSQ_PanelEnd(k) ==
    /\ pc = "seq_gather"
    /\ remaining[k].status = "started"
    /\ \E fault \in BOOLEAN :
          LET r == process_remaining_panel(k - 1, basic_panels[k], story_id,
                                           env, llm_mode, fault)
          IN  /\ events' = events \o r.events
              /\ storage_log' = storage_log \o r.writes
              /\ remaining' = [remaining EXCEPT
                                  ![k].status = "done",
                                  ![k].raised = r.raised,
                                  ![k].panel = r.panel]
    /\ UNCHANGED <<streamVars, storyVars, env, panelVars, llm_mode,
                   basic_panels, elapsed, pc, enhanceVars, retryVars, validateVars, clockVars, story_runs, extract_results, plan_depth, workflow, voice>>

\* an exception that no inner handler recovers is raised after the start
\* event and before the pipelines of the remaining panels are created: the
\* except handler of generate_sequential_story emits the error event and
\* raises again
GSQ_CallRaises ==
    /\ pc = "idle"
    /\ inputs' \in StreamProfiles
    /\ \E sid \in {"story_100"} :
          /\ story_id' = sid
          /\ events' = <<StoryEvent("story_generation_start", sid),
                         StoryEvent("story_generation_error", sid)>>
    /\ response' = "failed"
    /\ pc' = "seq_failed"
    /\ UNCHANGED <<streamVars, panel_count, processed_panels, env,
                   storage_log, panel_data, returned, seqVars, enhanceVars,
                   retryVars, validateVars, clockVars, story_runs, extract_results, plan_depth, workflow, voice>>

\* the response assembled without the join: as soon as every pipeline has
\* started, a pipeline that has not ended counting as one that raised
GSQ_AssembleWithoutJoin ==
    /\ pc = "seq_gather"
    /\ \A k \in RemainingPanels : remaining[k].status # "waiting"
    /\ processed_panels' =
           processed_panels
           \o [i \in 1..(max_panels - 1) |->
                 IF remaining[i + 1].status = "done"
                    /\ ~remaining[i + 1].raised
                 THEN remaining[i + 1].panel[1]
                 ELSE Sequential_create_fallback_panel(i + 1)]
    /\ events' = events
           \o <<StoryEvent("story_generation_complete", story_id)>>
    /\ response' = "completed"
    /\ pc' = "seq_done"
    /\ UNCHANGED <<streamVars, inputs, panel_count, env, storage_log,
                   panelVars, seqVars, enhanceVars, retryVars, validateVars, clockVars, story_runs, extract_results, plan_depth, workflow, voice>>

\* every pipeline has ended: the join, the fallback panels, the response
GSQ_Assemble ==
    /\ pc = "seq_gather"
    /\ \A k \in RemainingPanels : remaining[k].status = "done"
    /\ LET remaining_panels ==
               gather_remaining([i \in 1..(max_panels - 1) |->
                                    remaining[i + 1]])
       IN  IF remaining_panels.raised
           THEN /\ events' = events
                      \o <<StoryEvent("story_generation_error", story_id)>>
                /\ response' = "failed"
                /\ UNCHANGED processed_panels
           ELSE /\ processed_panels' =
                      processed_panels
                      \o AppendRemaining(remaining_panels.results)
                /\ events' = events
                      \o <<StoryEvent("story_generation_complete", story_id)>>
                /\ response' = "completed"
    /\ pc' = "seq_done"
    /\ UNCHANGED <<streamVars, inputs, panel_count, env, storage_log,
                   panelVars, seqVars, enhanceVars, retryVars, validateVars, clockVars, story_runs, extract_results, plan_depth, workflow, voice>>

NextSeq ==
    \/ GSQ_Call
    \/ GSQ_CallRaises
    \/ GSQ_Tick
    \/ \E k \in RemainingPanels : GSQ_PanelStart(k)
    \/ \E k \in RemainingPanels : GSQ_PanelEnd(k)
    \/ GSQ_Assemble

SpecSeq == InitSeq /\ [][NextSeq]_vars

\* what the pipeline of panel k returns when nothing is raised
OwnResult(k) ==
    IF k = 1
    THEN process_panel(_generate_panel_content(basic_panels[1], 1, llm_mode),
                       story_id, env).panel
    ELSE process_remaining_panel(k - 1, basic_panels[k], story_id, env,
                                 llm_mode, FALSE).panel[1]

Failed(k) == k \in RemainingPanels /\ remaining[k].raised

\* C5: when the pipelines of some of the panels 2..6 raise, the sequential
\* story still ends with the status completed and six panels; the position
\* of a panel that raised holds the fallback record of that panel (its
\* fallback narration, empty image and narration-audio URLs) and every other
\* position holds what the pipeline of its own panel returned.
C5_PerPanelIsolation ==
    pc = "seq_done" =>
        /\ response = "completed"
        /\ Len(processed_panels) = max_panels
        /\ Len(frontend_panels(processed_panels)) = max_panels
        /\ \A k \in 1..max_panels :
              /\ processed_panels[k].panel_number = k
              /\ IF Failed(k)
                 THEN /\ processed_panels[k].dialogue_text =
                            _get_fallback_dialogue(k)
                      /\ processed_panels[k].image_url = <<>>
                      /\ processed_panels[k].tts_url = <<>>
                      /\ frontend_panels(processed_panels)[k].imageUrl = <<>>
                      /\ frontend_panels(processed_panels)[k].narrationUrl
                            = <<>>
                 ELSE /\ processed_panels[k] = OwnResult(k)
                      /\ k > 1 => processed_panels[k] = remaining[k].panel[1]

\* the pipeline of panel 3 alone raised, and the story is complete
C5_Witness ==
    /\ pc = "seq_done"
    /\ response = "completed"
    /\ \A k \in RemainingPanels : remaining[k].raised <=> k = 3
    /\ processed_panels[3] = Sequential_create_fallback_panel(3)
    /\ processed_panels[4].tts_url = SignedUrl(tts_filename(story_id, 4))

\* the positions in events of the events of one of the types for panel n
EventsAt(types, n) ==
    {i \in 1..Len(events) : /\ events[i].event_type \in types
                            /\ events[i].panel_number = n}

\* before position s, both branches of panel 1 have ended and its
\* panel_processing_complete has been emitted
PanelOneReported(s) ==
    /\ \E i \in EventsAt({"image_generation_complete",
                          "image_generation_error"}, 1) : i < s
    /\ \E i \in EventsAt({"tts_generation_complete",
                          "tts_generation_error"}, 1) : i < s
    /\ \E i \in EventsAt({"panel_processing_complete"}, 1) : i < s

\* C16: in sequential mode panel 1 is processed in full (its narration
\* elaborated, its image and narration-audio branches ended,
\* panel_processing_complete emitted) and slideshow_start is emitted before
\* the pipelines of panels 2..6 are dispatched: no event of a panel in 2..6
\* precedes slideshow_start.
C16_FirstPanelBeforeDispatch ==
    /\ pc \in {"seq_gather", "seq_done"} =>
          /\ Len(processed_panels) >= 1
          /\ processed_panels[1] = OwnResult(1)
          /\ \E s \in EventsAt({"slideshow_start"}, 0) : PanelOneReported(s)
    /\ \A k \in RemainingPanels :
          \A i \in EventsAt({"panel_processing_start", "panel_ready",
                             "image_generation_start",
                             "tts_generation_start"}, k) :
              \E s \in EventsAt({"slideshow_start"}, 0) :
                  s < i /\ PanelOneReported(s)

\* the pipelines of panels 2 and 3 have started, nothing of them has ended,
\* and the image of panel 1 had failed
C16_Witness ==
    /\ pc = "seq_gather"
    /\ remaining[2].status = "started"
    /\ remaining[3].status = "started"
    /\ EventsAt({"image_generation_error"}, 1) # {}
    /\ EventsAt({"slideshow_start"}, 0) # {}
    /\ processed_panels[1].image_url = <<>>

\* C17: the pipeline of panel k in 2..6 starts no earlier than (k - 2)
\* increments of 2 seconds after the dispatch, so that for j < k the
\* panel_processing_start of panel j precedes every event of panel k; the
\* order in which the pipelines end is free.
C17_StaggeredStart ==
    pc \in {"seq_gather", "seq_done"} =>
        /\ \A k \in RemainingPanels :
              remaining[k].status # "waiting"
                  => elapsed >= (k - 2) * StaggerSeconds
        /\ \A j, k \in RemainingPanels :
              j < k =>
                  \A i \in EventsAt({"panel_processing_start", "panel_ready",
                                     "image_generation_start",
                                     "tts_generation_start"}, k) :
                      \E h \in EventsAt({"panel_processing_start"}, j) : h < i

\* the pipelines started in the order 2, 3, ..., 6 and ended in the order
\* 6, 5, ..., 2
C17_Witness ==
    /\ pc = "seq_done"
    /\ \A k \in RemainingPanels : EventsAt({"panel_ready"}, k) # {}
    /\ \A j, k \in RemainingPanels :
          j < k => \A a \in EventsAt({"panel_ready"}, j),
                      b \in EventsAt({"panel_ready"}, k) : b < a

\* C24: every panel record of the final list has the emotional tone that the
\* fixed mapping gives to its panel index (1 neutral, 2 tense, 3
\* contemplative, 4 hopeful, 5 determined, 6 uplifting), however the record
\* was produced.
C24_ToneOfIndex ==
    pc = "seq_done" =>
        \A i \in 1..Len(processed_panels) :
            processed_panels[i].emotional_tone =
                emotional_arc[processed_panels[i].panel_number]

\* the same for the records that are not the fallback of a failed pipeline
C24_ToneOfIndexUnlessFailed ==
    pc = "seq_done" =>
        \A i \in 1..Len(processed_panels) :
            ~Failed(i) =>
                processed_panels[i].emotional_tone =
                    emotional_arc[processed_panels[i].panel_number]

\* a story-level event of the type is among the events
StoryEventEmitted(type) ==
    \E i \in 1..Len(events) : events[i] = StoryEvent(type, story_id)

\* every call of the text-generation service failed, retries included: the
\* structure is the fallback structure and no panel got content from it
LlmUnreachable ==
    /\ basic_panels = _create_fallback_structure(inputs)
    /\ llm_mode = "raises"

\* C25 as stated: when the text-generation service is unreachable on every
\* call the sequential story ends with a story_generation_error event and
\* without the status completed, and otherwise, whatever assets and panels
\* fail, it ends without that event.
C25_StoryLevelError ==
    pc = "seq_done" =>
        IF LlmUnreachable
        THEN /\ StoryEventEmitted("story_generation_error")
             /\ response # "completed"
        ELSE ~StoryEventEmitted("story_generation_error")

\* C25: when the text-generation service is unreachable the story does not
\* end with a story-level error but degrades: whatever assets and panels fail
\* as well, no story_generation_error is emitted, story_generation_complete
\* is, the status is completed, and when the content calls have failed the
\* narration of each of the six panels is the fixed fallback narration of
\* its index.
C25_LlmFailureDegrades ==
    pc = "seq_done" =>
        /\ ~StoryEventEmitted("story_generation_error")
        /\ StoryEventEmitted("story_generation_complete")
        /\ response = "completed"
        /\ llm_mode = "raises" =>
              /\ Len(processed_panels) = max_panels
              /\ \A k \in 1..max_panels :
                    processed_panels[k].dialogue_text =
                        _get_fallback_dialogue(k)

\* the service was unreachable on every call, the image service was down and
\* the pipeline of panel 4 raised: the story is complete
C25_Witness ==
    /\ pc = "seq_done"
    /\ LlmUnreachable
    /\ env = ImageDown
    /\ Failed(4)
    /\ response = "completed"
    /\ processed_panels[1].dialogue_text = _get_fallback_dialogue(1)

\* ----------------------------- specification of extract_all_panels_robust
\* The function is pure: the initial states draw its argument, the one
\* action applies it.  Each format carries its own narration for panel n, so
\* that a returned value tells the strategy that supplied it.

UnquotedText(n) == <<Opening[n], " ", "walks on alone", ".">>

FlexibleText(n) == <<Opening[n], " ", "looks up again", ".">>

NumberedText(n) == <<Opening[n], " ", "finds the way home at last", ".">>

\* panel n: Dialogue text: <d>\n\n
FlexibleBlock(n, d) ==
    <<"panel", " ">> \o NumAtoms(n)
    \o <<":", " ", "Dialogue", " ", "text", ":", " ">> \o d \o <<"\n", "\n">>

\* n. <d>\n\n
NumberedBlock(n, d) == NumAtoms(n) \o <<".", " ">> \o d \o <<"\n", "\n">>

ExtractBlocks ==
    UNION {{QuotedBlock(n, DialogueOf(n)), UnquotedBlock(n, UnquotedText(n)),
            FlexibleBlock(n, FlexibleText(n)),
            NumberedBlock(n, NumberedText(n))} : n \in {1, 2}}

\* up to three blocks in any order and any mix of formats, and the texts
\* whose quoted blocks alone fill six indices
ExtractTexts ==
    {a \o b \o c : a, b, c \in ExtractBlocks \cup {<<>>}}
    \cup {StoryText(S, TRUE, FALSE) \o b :
              S \in {1..6, 2..7}, b \in ExtractBlocks}
    \cup {StoryText(1..5, TRUE, FALSE) \o NumberedBlock(6, NumberedText(6)),
          StoryText(2..6, TRUE, FALSE) \o NumberedBlock(1, NumberedText(1))}

InitExtract ==
    /\ pc = "extract_call"
    /\ raw_text \in ExtractTexts
    /\ found = EmptyDict
    /\ enhanced = EmptyDict
    /\ IdleStream /\ IdleStory /\ IdleIo /\ IdlePanel /\ IdleSeq
    /\ IdleRetry /\ IdleValidate /\ IdleClock

Extract ==
    /\ pc = "extract_call"
    /\ found' = extract_all_panels_robust(raw_text)
    /\ pc' = "extract_done"
    /\ UNCHANGED <<streamVars, storyVars, ioVars, panelVars, seqVars,
                   raw_text, enhanced, retryVars, validateVars, clockVars, story_runs, extract_results, plan_depth, workflow, voice>>

NextExtract == Extract

SpecExtract == InitExtract /\ [][NextExtract]_vars

\* the panel indices the texts may name
PanelIndices == 1..7

\* the qualifying contents the matches ms of a pattern carry for index i
Candidates(text, ms, i) ==
    {Strip(Group2(text, ms[j])) :
        j \in {k \in 1..Len(ms) : /\ ToInt(Group1(text, ms[k]), 0) = i
                                  /\ Qualifies(Group2(text, ms[k]))}}

\* the contents the numbered blocks carry, whatever index they are given
NumberedContents(text, ms) ==
    {RStripDots(Strip(Group2(text, ms[j]))) : j \in 1..Len(ms)}

RECURSIVE FilledBy(_, _, _)
\* the indices filled once the strategies 1..s have been applied, a strategy
\* after the first being applied only while fewer than six are filled
FilledBy(text, mss, s) ==
    IF s = 0 THEN {}
    ELSE LET before == FilledBy(text, mss, s - 1)
         IN  IF s > 1 /\ Cardinality(before) >= 6 THEN before
             ELSE before \cup {i \in PanelIndices :
                                  Candidates(text, mss[s], i) # {}}

\* the value of index i comes from the earliest strategy that yields one
EarliestWins(text, result, mss, m4) ==
    /\ FilledBy(text, mss, 3) \subseteq DOMAIN result
    /\ \A i \in DOMAIN result :
          IF i \in FilledBy(text, mss, 3)
          THEN \E s \in 1..3 :
                  /\ i \in FilledBy(text, mss, s)
                  /\ i \notin FilledBy(text, mss, s - 1)
                  /\ result[i] \in Candidates(text, mss[s], i)
          ELSE /\ Cardinality(FilledBy(text, mss, 3)) < 6
               /\ result[i] \in NumberedContents(text, m4)

\* C11: extract_all_panels_robust applies strategies 1 to 4 in that order
\* and never replaces the value of an index that an earlier strategy filled:
\* for every text and every index i, the returned value for i is a qualifying
\* content of the earliest strategy that yields one for i, and a numbered
\* block (strategy 4) only fills an index that strategies 1 to 3 left empty.
C11_EarliestStrategyWins ==
    pc = "extract_done" =>
        EarliestWins(raw_text, found,
                     << ReFindAll(strategy1_pattern, raw_text),
                        ReFindAll(strategy2_pattern, raw_text),
                        ReFindAll(strategy3_pattern, raw_text) >>,
                     ReFindAll(strategy4_pattern, raw_text))

\* a text where panel 1 is first given unquoted, then in the flexible
\* format, then quoted: strategies 1, 2 and 3 each yield their own content
\* for index 1, and the quoted narration of strategy 1 is the one returned
C11_Witness ==
    /\ pc = "extract_done"
    /\ raw_text = UnquotedBlock(1, UnquotedText(1))
                  \o FlexibleBlock(1, FlexibleText(1))
                  \o QuotedBlock(1, DialogueOf(1))
    /\ UnquotedText(1) \in
           Candidates(raw_text, ReFindAll(strategy2_pattern, raw_text), 1)
    /\ FlexibleText(1) \in
           Candidates(raw_text, ReFindAll(strategy3_pattern, raw_text), 1)
    /\ found[1] = DialogueOf(1)

RECURSIVE NumberedBlocks(_, _, _)
\* the contents of the numbered blocks that qualify, from match i on, in the
\* order of the text
NumberedBlocks(text, ms, i) ==
    IF i > Len(ms) THEN <<>>
    ELSE LET clean == RStripDots(Strip(Group2(text, ms[i])))
         IN  (IF PyLen(clean) > 15 THEN <<clean>> ELSE <<>>)
             \o NumberedBlocks(text, ms, i + 1)

RECURSIVE Ascending(_)
\* the numbers of S in ascending order
Ascending(S) ==
    IF S = {} THEN <<>>
    ELSE LET m == CHOOSE n \in S : \A k \in S : n <= k
         IN  <<m>> \o Ascending(S \ {m})

\* what strategies 1 to 3 return for the text
BeforeStrategy4(text) == Strategy3(text, Strategy2(text, Strategy1(text)))

\* the indices of 1..6 that strategies 1 to 3 left empty, in ascending order
StillMissing(text) == Ascending((1..6) \ DOMAIN BeforeStrategy4(text))

\* strategy 4 has given the blocks to the first n missing indices, in order
AssignedInOrder(text, result, n) ==
    LET blocks  == NumberedBlocks(text, ReFindAll(strategy4_pattern, text), 1)
        missing == StillMissing(text)
    IN  \A j \in 1..n :
            /\ missing[j] \in DOMAIN result
            /\ result[missing[j]] = blocks[j]

\* the missing indices that come before the first index filled by the
\* strategies 1 to 3
LeadingGap(text) ==
    {i \in 1..6 : \A k \in 1..i : k \notin DOMAIN BeforeStrategy4(text)}

\* C38: strategy 4 fills the missing panels independently of which panels the
\* earlier strategies found: for every text in which strategies 1 to 3 found
\* a proper subset of the panels 1..6 and which has at least as many
\* qualifying numbered blocks as missing panels, the blocks are assigned to
\* the missing indices in ascending order, also when panel 1 was found.
C38_FillsMissing ==
    pc = "extract_done" =>
        LET blocks == NumberedBlocks(raw_text,
                          ReFindAll(strategy4_pattern, raw_text), 1)
            missing == StillMissing(raw_text)
        IN  /\ NeedsMore(BeforeStrategy4(raw_text))
            /\ missing # <<>>
            /\ Len(blocks) >= Len(missing)
            => AssignedInOrder(raw_text, found, Len(missing))

\* what strategy 4 does: it gives the blocks, in order, to the missing indices
\* that come before the first index already filled, and fills no other index
C38_FillsLeadingGap ==
    pc = "extract_done" =>
        LET blocks == NumberedBlocks(raw_text,
                          ReFindAll(strategy4_pattern, raw_text), 1)
            before == BeforeStrategy4(raw_text)
            n == IF Len(blocks) < Cardinality(LeadingGap(raw_text))
                 THEN Len(blocks) ELSE Cardinality(LeadingGap(raw_text))
        IN  NeedsMore(before) =>
                /\ AssignedInOrder(raw_text, found, n)
                /\ DOMAIN found = DOMAIN before \cup 1..n

\* strategy 4 has filled panel 1 of a text whose panels 2..6 were found
C38_LeadingGapFilled ==
    /\ pc = "extract_done"
    /\ DOMAIN BeforeStrategy4(raw_text) = 2..6
    /\ DOMAIN found = 1..6

\* ------------------------------- the events of a whole generation

\* the positions of the panel_processing_start events of panel n
StartsOf(n) ==
    {i \in 1..Len(events) :
        /\ events[i].event_type = "panel_processing_start"
        /\ events[i].panel_number = n}

\* C34: within one story generation exactly one panel_processing_start event
\* is emitted for each panel index 1..6, no panel gets two and none gets
\* zero, in the sequential mode as well as in the streaming mode.
C34_OneStartPerPanel ==
    pc \in {"seq_done", "story_done"} =>
        \A n \in 1..max_panels : Cardinality(StartsOf(n)) = 1

\* every panel gets at least one start event
C34_SomeStartPerPanel ==
    pc \in {"seq_done", "story_done"} =>
        \A n \in 1..max_panels : StartsOf(n) # {}

\* the branch events of panel n between two positions of the event list
BranchEnded(n, from, to, branch) ==
    \E k \in (from + 1)..(to - 1) :
        /\ events[k].panel_number = n
        /\ events[k].event_type \in
               {branch \o "_generation_complete", branch \o "_generation_error"}

\* the panel started at position i has ended at position k: both branches
\* have ended in between and k holds its panel_processing_complete
PanelEndedAt(i, k) ==
    /\ events[k].event_type = "panel_processing_complete"
    /\ events[k].panel_number = events[i].panel_number
    /\ BranchEnded(events[i].panel_number, i, k, "image")
    /\ BranchEnded(events[i].panel_number, i, k, "tts")

\* the panels started and not yet ended
InFlight ==
    {i \in PositionsOf("panel_processing_start") :
        ~ \E k \in (i + 1)..Len(events) : PanelEndedAt(i, k)}

\* C35: in the streaming mode at most one panel is in flight: between two
\* panel_processing_start events lies the panel_processing_complete of the
\* first one, after the end of its image and TTS branches; while the
\* generator reads the stream no panel is in flight; and every start of panel
\* n + 1 comes after a panel_processing_complete of panel n
C35_OneInFlight ==
    /\ Cardinality(InFlight) <= 1
    /\ pc \in {"gss_loop", "story_done"} => InFlight = {}
    /\ \A i, j \in PositionsOf("panel_processing_start") :
          i < j => \E k \in (i + 1)..(j - 1) : PanelEndedAt(i, k)
    /\ \A j \in PositionsOf("panel_processing_start") :
          events[j].panel_number > 1 =>
              \E k \in 1..(j - 1) :
                  /\ events[k].event_type = "panel_processing_complete"
                  /\ events[k].panel_number = events[j].panel_number - 1

\* a story of six panels has been processed with the image service failing on
\* the first attempt: panels came from the stream, six panels were started and
\* each has ended
C35_Witness ==
    /\ pc = "story_done"
    /\ env.image # <<>>
    /\ Cardinality(PositionsOf("panel_ready")) >= 2
    /\ Cardinality(PositionsOf("panel_processing_start")) >= max_panels
    /\ Cardinality(PositionsOf("panel_processing_complete")) >= max_panels

\* the story-level terminal events of the event list
TerminalEvents ==
    PositionsOf("story_generation_complete")
        \cup PositionsOf("story_generation_error")

\* panel k has reached its terminal outcome before position c: its processed
\* record after its panel_processing_complete, or its fallback record
TerminalOutcome(k, c) ==
    /\ Len(processed_panels) >= k
    /\ IF Failed(k)
       THEN processed_panels[k] = Sequential_create_fallback_panel(k)
       ELSE /\ processed_panels[k] = OwnResult(k)
            /\ \E i \in EventsAt({"panel_processing_complete"}, k) : i < c
    /\ k \in RemainingPanels => remaining[k].status = "done"

\* C36: in sequential mode story_generation_complete is emitted only after
\* panel 1 and each of the panels 2..6 has reached a terminal outcome (its
\* processed record or its fallback record); a run that has ended has emitted
\* exactly one story-level terminal event, story_generation_complete or
\* story_generation_error, as its last event, and a run that has not ended
\* has emitted none.
C36_TerminalEvents ==
    /\ \A c \in PositionsOf("story_generation_complete") :
          \A k \in 1..max_panels : TerminalOutcome(k, c)
    /\ pc \in {"seq_done", "seq_failed"} => TerminalEvents = {Len(events)}
    /\ pc \notin {"seq_done", "seq_failed"} => TerminalEvents = {}

\* a story has completed in which the pipeline of panel 3 raised and the
\* pipeline of panel 2 ended after the one of panel 6
C36_Witness ==
    /\ pc = "seq_done"
    /\ PositionsOf("story_generation_complete") = {Len(events)}
    /\ Failed(3)
    /\ ~Failed(2) /\ ~Failed(6)
    /\ \A a \in EventsAt({"panel_ready"}, 2),
          b \in EventsAt({"panel_ready"}, 6) : b < a

\* a run has ended with story_generation_error
C36_ErrorEnd ==
    /\ pc = "seq_failed"
    /\ PositionsOf("story_generation_error") = {Len(events)}

\* -------------- specification of repeated calls of extract_all_panels_robust
\* The extractor is called again and again, on the same text or on another
\* one, while the parser and the enhancer are used in between.

MaxCalls == 3

MaxBuffer == 30

\* a quoted block of panel 1, an unquoted block of panel 2, and the quoted
\* block followed by a numbered one
PureTexts ==
    { QuotedBlock(1, DialogueOf(1)),
      UnquotedBlock(2, UnquotedText(2)),
      QuotedBlock(1, DialogueOf(1)) \o NumberedBlock(2, NumberedText(2)) }

InitPure ==
    /\ pc = "idle"
    /\ IdleStream /\ IdleStory /\ IdleIo /\ IdlePanel /\ IdleSeq
    /\ IdleEnhance /\ IdleRetry /\ IdleValidate /\ IdleClock

\* a dict that outlives the call: what it held stays unless written again
KeptAndNew(kept, new) ==
    [n \in DOMAIN kept \cup DOMAIN new |->
        IF n \in DOMAIN new THEN new[n] ELSE kept[n]]

\* a variant in which `panels` is not made anew by each call
RobustCallKeepingPanels(text) ==
    /\ raw_text' = text
    /\ found' = KeptAndNew(found, extract_all_panels_robust(text))

\* dialogue_extractor.extract_all_panels_robust(text): `panels = {}`, the
\* four strategies, `return panels`
RobustCall(text) ==
    /\ raw_text' = text
    /\ found' = extract_all_panels_robust(text)

\* a call of the extractor
ExtractCall ==
    /\ Len(extract_results) < MaxCalls
    /\ \E text \in PureTexts : RobustCall(text)
    /\ extract_results' = Append(extract_results, <<raw_text', found'>>)
    /\ UNCHANGED <<streamVars, pc, storyVars, ioVars, panelVars, seqVars,
                   enhanced, retryVars, validateVars, clockVars, story_runs,
                   plan_depth, workflow, voice>>

\* a call of validate_and_enhance_dialogue on the last result
EnhanceCall ==
    /\ enhanced' = validate_and_enhance_dialogue(found, inputs)
    /\ UNCHANGED <<streamVars, pc, storyVars, ioVars, panelVars, seqVars,
                   raw_text, found, retryVars, validateVars, clockVars,
                   story_runs, extract_results, plan_depth, workflow, voice>>

\* a token reaches the parser
TokenCall ==
    /\ Len(parser.accumulated_text) < MaxBuffer
    /\ \E token \in PureTexts : parser' = process_token(parser, token).ps
    /\ UNCHANGED <<llm_response, stream_error, response_stream,
                   accumulated_full_text, yielded, pc, storyVars, ioVars,
                   panelVars, seqVars, enhanceVars, retryVars, validateVars,
                   clockVars, story_runs, extract_results, plan_depth, workflow, voice>>

NextPure == ExtractCall \/ EnhanceCall \/ TokenCall

SpecPure == InitPure /\ [][NextPure]_vars

MaxRetriesBound == 2

RetryErrors ==
    { Exc("Exception", E429), Exc("RateLimitError", ERateLimit),
      Exc("Exception", EResourceExhausted), Exc("ValueError", EBadInput),
      Exc("Exception", EConnection) }

\* retryable_exceptions: not given, or (RetryableError,)
RetryableArgs == {NoTypes, Types({"RetryableError"})}

RetryArgs ==
    [max_retries : 0..MaxRetriesBound, initial_delay : {1, 2},
     max_delay : {3, 60}, exponential_base : {2}, jitter : BOOLEAN,
     retryable_exceptions : RetryableArgs]

\* func was awaited and raised the exceptions of `raised` (none or one)
CallEvent(raised) == [kind |-> "call", delay |-> 0, raised |-> raised]

\* asyncio.sleep(d) was awaited
SleepEvent(d) == [kind |-> "sleep", delay |-> d, raised |-> <<>>]

FuncValue == <<"response">>

InitRetry ==
    /\ pc = "retry_idle"
    /\ IdleStream /\ IdleStory /\ IdleIo /\ IdlePanel /\ IdleSeq
    /\ IdleEnhance /\ IdleRetry /\ IdleValidate /\ IdleClock

\* exponential_backoff_async is called: the code before the loop
EBA_Call ==
    /\ pc = "retry_idle"
    /\ \E args \in RetryArgs :
          retry' = [max_retries |-> args.max_retries,
                    initial_delay |-> args.initial_delay,
                    max_delay |-> args.max_delay,
                    exponential_base |-> args.exponential_base,
                    jitter |-> args.jitter,
                    retryable_exceptions |->
                        DefaultRetryable(args.retryable_exceptions),
                    given |-> args.retryable_exceptions,
                    attempt |-> 0,
                    last_exception |-> <<>>]
    /\ retry_log' = <<>>
    /\ retry_outcome' = <<>>
    /\ pc' = "retry_loop"
    /\ UNCHANGED <<streamVars, storyVars, ioVars, panelVars, seqVars,
                   enhanceVars, validateVars, clockVars, story_runs, extract_results, plan_depth, workflow, voice>>

\* func returned: `return result`
EBA_Return ==
    /\ retry_log' = Append(retry_log, CallEvent(<<>>))
    /\ retry_outcome' =
           <<[raised |-> FALSE, value |-> FuncValue, e |-> <<>>]>>
    /\ pc' = "retry_done"
    /\ UNCHANGED retry

\* func raised e: the except clause, with random.random() = k / JitterSteps
EBA_Except(e, k) ==
    IF fatal(e, retry.retryable_exceptions) \/ exhausted(retry)
    THEN /\ retry_log' = Append(retry_log, CallEvent(<<e>>))
         /\ retry_outcome' =
                <<[raised |-> TRUE, value |-> <<>>, e |-> <<e>>]>>
         /\ retry' = [retry EXCEPT !.last_exception = <<e>>]
         /\ pc' = "retry_done"
    ELSE /\ retry_log' =
                retry_log \o
                << CallEvent(<<e>>),
                   SleepEvent(delay(retry,
                                    backoff_is_quota_exceeded(e.text), k)) >>
         /\ retry' = [retry EXCEPT !.last_exception = <<e>>,
                                   !.attempt = @ + 1]
         /\ retry_outcome' = retry_outcome
         /\ pc' = "retry_loop"

\* one pass of `for attempt in range(max_retries + 1)`: func is awaited,
\* and after a retryable failure so is asyncio.sleep(delay)
EBA_Attempt ==
    /\ pc = "retry_loop"
    /\ \/ EBA_Return
       \/ \E e \in RetryErrors, k \in RandomValues : EBA_Except(e, k)
    /\ UNCHANGED <<streamVars, storyVars, ioVars, panelVars, seqVars,
                   enhanceVars, validateVars, clockVars, story_runs, extract_results, plan_depth, workflow, voice>>

NextRetry == EBA_Call \/ EBA_Attempt

SpecRetry == InitRetry /\ [][NextRetry]_vars

\* ----------------------------------------- properties: the retry executor

IsCall(ev) == ev.kind = "call"

IsSleep(ev) == ev.kind = "sleep"

\* the calls of func and the sleeps of the log
CallsOf(log) == SelectSeq(log, IsCall)

SleepsOf(log) == SelectSeq(log, IsSleep)

\* the call of position i raised
Failure(log, i) == IsCall(log[i]) /\ log[i].raised # <<>>

\* a call and a sleep alternate, the log ending with a call
Alternates(log) ==
    /\ Len(log) % 2 = 1
    /\ \A i \in 1..Len(log) : IF i % 2 = 1 THEN IsCall(log[i])
                                           ELSE IsSleep(log[i])

\* e has a rate-limit/quota keyword in its text, or is an instance of a type
\* the caller supplied
RetryableForCaller(e) ==
    \/ is_rate_limit(e.text)
    \/ \E exc_type \in retry.given.types : exc_type \in Ancestors(e.cls)

\* C12: an exception that has no rate-limit/quota keyword in its text and is
\* not an instance of a caller-supplied retryable type is propagated at
\* once: the failed call is the last event of the log, no sleep and no call
\* follow it, and exponential_backoff_async raises that exception; also when
\* the caller supplies no retryable-type list.
C12_FatalPropagates ==
    \A i \in 1..Len(retry_log) :
        (Failure(retry_log, i) /\ ~RetryableForCaller(retry_log[i].raised[1]))
            => /\ i = Len(retry_log)
               /\ pc = "retry_done"
               /\ retry_outcome =
                      <<[raised |-> TRUE, value |-> <<>>,
                         e |-> retry_log[i].raised]>>

\* C13: when every attempt fails with a retryable error, func is called
\* exactly max_retries + 1 times with exactly max_retries sleeps, one between
\* two consecutive calls and none after the last, and the exception of the
\* last call is raised; when a call returns, its value is returned and it is
\* the last event.
C13_Exhaustion ==
    pc = "retry_done" =>
        /\ Alternates(retry_log)
        /\ Len(retry_outcome) = 1
        /\ \A i \in 1..(Len(retry_log) - 1) :
              IsCall(retry_log[i]) => Failure(retry_log, i)
        /\ IF retry_outcome[1].raised
           THEN /\ retry_outcome[1].e = retry_log[Len(retry_log)].raised
                /\ retry_outcome[1].e # <<>>
                /\ ~fatal(retry_outcome[1].e[1], retry.retryable_exceptions)
                     => /\ Len(CallsOf(retry_log)) = retry.max_retries + 1
                        /\ Len(SleepsOf(retry_log)) = retry.max_retries
           ELSE /\ retry_log[Len(retry_log)].raised = <<>>
                /\ retry_outcome[1].value = FuncValue
                /\ Len(CallsOf(retry_log)) <= retry.max_retries + 1

\* three failed calls with two sleeps between them, then the last exception
C13_Witness ==
    /\ pc = "retry_done"
    /\ retry.max_retries = 2
    /\ Len(CallsOf(retry_log)) = 3
    /\ Len(SleepsOf(retry_log)) = 2
    /\ retry_outcome[1].raised
    /\ retry_outcome[1].e = <<Exc("RateLimitError", ERateLimit)>>
    /\ retry_log[1].raised = <<Exc("Exception", E429)>>

\* the error text names a quota
QuotaFlagged(e) == Contains(Lower(e.text), <<"quota">>)

\* func failed twice with a quota-flagged error and then returned
QuotaScenario ==
    /\ pc = "retry_done"
    /\ Len(retry_log) = 5
    /\ Failure(retry_log, 1) /\ QuotaFlagged(retry_log[1].raised[1])
    /\ Failure(retry_log, 3) /\ QuotaFlagged(retry_log[3].raised[1])
    /\ IsCall(retry_log[5]) /\ retry_log[5].raised = <<>>

\* C14 (as stated): in the quota scenario there are exactly 2 sleeps, each
\* at least initial_delay * 2 and less than max_delay * 2, and the success
\* value is returned.
C14_QuotaSleepsDoubled ==
    QuotaScenario =>
        /\ Len(SleepsOf(retry_log)) = 2
        /\ \A i \in {2, 4} :
              /\ retry_log[i].delay >= Seconds(retry.initial_delay * 2)
              /\ retry_log[i].delay < Seconds(retry.max_delay * 2)
        /\ retry_outcome = <<[raised |-> FALSE, value |-> FuncValue,
                              e |-> <<>>]>>

\* C14 (amended): in the quota scenario there are exactly 2 sleeps and the
\* success value is returned; each sleep is at least initial_delay * 0.5 and
\* at most max_delay * 2, and at least initial_delay when the error text
\* contains 'quota exceeded' (the doubled delay, scaled by the jitter factor
\* of 0.5 or more).
C14_QuotaSleepsWithJitter ==
    QuotaScenario =>
        /\ Len(SleepsOf(retry_log)) = 2
        /\ \A i \in {2, 4} :
              /\ IsSleep(retry_log[i])
              /\ 2 * retry_log[i].delay >= Seconds(retry.initial_delay)
              /\ retry_log[i].delay <= Seconds(retry.max_delay * 2)
              /\ backoff_is_quota_exceeded(retry_log[i - 1].raised[1].text)
                   => retry_log[i].delay >= Seconds(retry.initial_delay)
        /\ retry_outcome = <<[raised |-> FALSE, value |-> FuncValue,
                              e |-> <<>>]>>

\* two '429 Quota exceeded' failures, the second delay capped at twice
\* max_delay, then the value
C14_Witness ==
    /\ QuotaScenario
    /\ retry_log[1].raised = <<Exc("Exception", E429)>>
    /\ retry_log[3].raised = <<Exc("Exception", E429)>>
    /\ retry.jitter
    /\ retry_log[2].delay < Seconds(retry.initial_delay * 2)
    /\ retry.initial_delay * retry.exponential_base > retry.max_delay
    /\ retry_outcome[1].value = FuncValue

\* the texts that indicate quota exhaustion among those the executor
\* classifies as rate-limit/quota
QuotaIndicating(e) ==
    \E keyword \in {<<"quota">>, <<"quota", "_", "exceeded">>,
                    <<"resource", "_", "exhausted">>} :
        Contains(Lower(e.text), keyword)

\* b of the backoff curve for the sleep after the failure of attempt a
CurveBase(e, a) ==
    IF QuotaIndicating(e)
    THEN Min(2 * retry.initial_delay * Pow(retry.exponential_base, a),
             2 * retry.max_delay)
    ELSE Min(retry.initial_delay * Pow(retry.exponential_base, a),
             retry.max_delay)

\* C15: the sleep after the failure of attempt a is b * j with j in
\* [0.5, 1.0] and b = min(initial_delay * exponential_base^a, max_delay),
\* both terms doubled for every error text that indicates quota exhaustion
\* ('quota', 'quota_exceeded', 'resource_exhausted').
C15_BackoffCurve ==
    \A i \in 1..Len(retry_log) :
        IsSleep(retry_log[i]) =>
            LET b == CurveBase(retry_log[i - 1].raised[1], (i \div 2) - 1)
            IN  /\ 2 * retry_log[i].delay >= Seconds(b)
                /\ retry_log[i].delay <= Seconds(b)

\* ----------------------------- specification of validate_story_consistency
\* The function on panel lists of 0, 5, 6 and 7 records; a record has a
\* character sheet with one of two names, a sheet without a name, or no
\* sheet at all.

ValidateNames == {<<"Maya">>, <<"Hero">>}

NamedPanel(name) ==
    [character_sheet |-> Dict({<<<<"name">>, name>>, KV("age", "young")})]

NamelessPanel == [character_sheet |-> Dict({KV("age", "young")})]

SheetlessPanel == [dialogue_text |-> <<"Maya", " ", "keeps going today", ".">>]

ValidatePanels ==
    {NamedPanel(name) : name \in ValidateNames}
        \cup {NamelessPanel, SheetlessPanel}

ValidateLens == {0, 5, 6, 7}

ValidateLists == UNION {[1..n -> ValidatePanels] : n \in ValidateLens}

InitValidate ==
    /\ pc = "validate_call"
    /\ final_panels \in ValidateLists
    /\ is_consistent = <<>>
    /\ IdleStream /\ IdleStory /\ IdleIo /\ IdlePanel /\ IdleSeq
    /\ IdleEnhance /\ IdleRetry /\ IdleClock

\* is_consistent = validate_story_consistency(final_panels)
VSC_Call ==
    /\ pc = "validate_call"
    /\ is_consistent' = <<validate_story_consistency(final_panels)>>
    /\ pc' = "validate_done"
    /\ UNCHANGED <<streamVars, storyVars, ioVars, panelVars, seqVars,
                   enhanceVars, retryVars, final_panels, clockVars, story_runs, extract_results, plan_depth, workflow, voice>>

NextValidate == VSC_Call

SpecValidate == InitValidate /\ [][NextValidate]_vars

\* --------------------------------- properties: validate_story_consistency

\* the record has a character sheet whose name is `name`
Carries(panel, name) ==
    /\ "character_sheet" \in DOMAIN panel
    /\ NamesOf(panel.character_sheet) = {name}

\* all the records of the list carry one and the same character name
AllCarryOneName(panels) ==
    \E name \in ValidateNames :
        \A i \in 1..Len(panels) : Carries(panels[i], name)

\* the list is rejected when it has not exactly six records or its records
\* have more than one character name
C20_Rejects ==
    (/\ pc = "validate_done"
     /\ \/ Len(final_panels) # 6
        \/ Cardinality(CharacterNames(final_panels)) > 1)
        => ~is_consistent[1]

\* C20: validate_story_consistency returns false whenever the list has not
\* exactly six records or the records have more than one character name, and
\* it returns true only when all six records carry one and the same
\* character name.
C20_ConsistencyCheck ==
    pc = "validate_done" =>
        /\ (\/ Len(final_panels) # 6
            \/ Cardinality(CharacterNames(final_panels)) > 1)
               => ~is_consistent[1]
        /\ is_consistent[1] =>
              /\ Len(final_panels) = 6
              /\ AllCarryOneName(final_panels)

\* ------------------------------ specification of concurrent generations
\* Several story generations run on one event loop: each takes its story id
\* from the clock when it starts and then uploads the image and the narration
\* audio of its panels 1..6, while the clock goes on.

MaxStories == 2

MaxLoopTime == 4

Generations == 1..MaxStories

NotStarted == [status |-> "idle", story_id |-> "", next |-> 1]

InitStories ==
    /\ pc = "loop"
    /\ loop_time = 0
    /\ running = [g \in Generations |-> NotStarted]
    /\ writers = {}
    /\ story_runs = 0
    /\ extract_results = <<>>
    /\ plan_depth = 0
    /\ workflow = NoWorkflow
    /\ voice = NoVoice
    /\ IdleStream /\ IdleStory /\ IdleIo /\ IdlePanel /\ IdleSeq
    /\ IdleEnhance /\ IdleRetry /\ IdleValidate

\* the clock of the event loop goes on
ClockTick ==
    /\ pc = "loop"
    /\ loop_time < MaxLoopTime
    /\ loop_time' = loop_time + 1
    /\ UNCHANGED <<streamVars, storyVars, ioVars, panelVars, seqVars,
                   enhanceVars, retryVars, validateVars, pc, running,
                   writers, story_runs, extract_results, plan_depth, workflow, voice>>

\* a request arrives: the generation takes its story id from the clock
StoryStart(g) ==
    /\ pc = "loop"
    /\ running[g].status = "idle"
    /\ running' = [running EXCEPT ![g] = [status |-> "running",
                                          story_id |-> StoryIdAt(loop_time),
                                          next |-> 1]]
    /\ UNCHANGED <<streamVars, storyVars, ioVars, panelVars, seqVars,
                   enhanceVars, retryVars, validateVars, pc, loop_time,
                   writers, story_runs, extract_results, plan_depth, workflow, voice>>

\* the generation uploads the image and the narration audio of its next panel
\* (upload_image, upload_tts_audio)
PanelUpload(g) ==
    /\ pc = "loop"
    /\ running[g].status = "running"
    /\ LET n == running[g].next
           sid == running[g].story_id
       IN  /\ writers' = writers \cup {<<image_filename(sid, n), g>>,
                                       <<tts_filename(sid, n), g>>}
           /\ running' = [running EXCEPT
                             ![g].next = n + 1,
                             ![g].status = IF n = max_panels THEN "done"
                                           ELSE "running"]
    /\ UNCHANGED <<streamVars, storyVars, ioVars, panelVars, seqVars,
                   enhanceVars, retryVars, validateVars, pc, loop_time,
                   story_runs, extract_results, plan_depth, workflow, voice>>

NextStories ==
    \/ ClockTick
    \/ \E g \in Generations : StoryStart(g)
    \/ \E g \in Generations : PanelUpload(g)

SpecStories == InitStories /\ [][NextStories]_vars

\* ------------------------------------ properties: concurrent generations

\* the generations that have written the blob path
WritersOf(path) == {w[2] : w \in {x \in writers : x[1] = path}}

\* C26: every storage path stories/{story id}/panel_NN.png and
\* stories/{story id}/tts_panel_NN.mp3 is written by one generation only,
\* also when several generations run at the same time: no two of them write
\* the same path.
C26_OneWriterPerPath ==
    \A w \in writers : Cardinality(WritersOf(w[1])) = 1

\* the same for generations that started in different rounded seconds
C26_OneWriterPerSecond ==
    \A v, w \in writers :
        (v[1] = w[1] /\ v[2] # w[2]) =>
            running[v[2]].story_id = running[w[2]].story_id

\* ------------------------------------ specification of generate_story_plan
\* StoryService.generate_story_plan calls itself when the plan fails the
\* consistency check; the code counts no attempts, and the activations pile
\* up on the interpreter's stack until a call raises RecursionError.

\* CHARACTER_SHEET:\n{"age": "young"}\n
NamelessSection ==
    <<"CHARACTER_SHEET", ":", "\n", "{", "\"", "age", "\"", ":", " ",
      "\"", "young", "\"", "}", "\n">>

\* the answers of the Story Architect: a named sheet, no sheet, a sheet
\* without a name, a sheet that json.loads rejects or cannot descend; six
\* blocks, three or none
PlanAnswers ==
    { StoryText(1..6, TRUE, TRUE), StoryText({1, 2, 4}, TRUE, TRUE),
      CharacterSection("Hero") \o Blocks(1..6, TRUE, 1),
      StoryText(1..6, TRUE, FALSE), StoryText({1, 2, 4}, TRUE, FALSE),
      NamelessSection \o Blocks(1..6, TRUE, 1),
      NamelessSection \o Blocks({1, 2, 4}, TRUE, 1),
      NamelessSection, <<>>,
      BrokenSheetText, DeepSheetText }

\* json.loads(match.group(1)) if match else {}
ArchitectSheetOf(answer, m) ==
    IF ~m.ok THEN [raised |-> FALSE, sheet |-> Dict({})]
    ELSE IF JsonRecursion(Group1(answer, m))
            \/ ~JsonLoads(Group1(answer, m)).ok
         THEN [raised |-> TRUE, sheet |-> Dict({})]
         ELSE [raised |-> FALSE,
               sheet |-> Dict(JsonLoads(Group1(answer, m)).items)]

ArchitectSheet(label, answer) ==
    ArchitectSheetOf(answer, ReSearch(RxSection(label), answer))

\* rf'PANEL_{i}:\s*dialogue_text:\s*"([^"]*)"'
panel_pattern(i) ==
    << Lit(PanelLabel(i)), RxWS, Lit(<<"dialogue", "_", "text", ":">>),
       RxWS, Lit(<<"\"">>), GroupOpen, RxNotQuote, GroupClose,
       Lit(<<"\"">>) >>

\* the record of panel i: parsed, or "Panel i dialogue"
ArchitectPanelOf(i, answer, m, cs, pr, st) ==
    [panel_number |-> i,
     character_sheet |-> cs,
     prop_sheet |-> pr,
     style_guide |-> st,
     dialogue_text |-> IF m.ok THEN Group1(answer, m)
                       ELSE <<"Panel ">> \o NumAtoms(i) \o <<" dialogue">>,
     emotional_tone |-> IF m.ok THEN _determine_emotional_tone(i)
                        ELSE "neutral"]

ArchitectPanel(i, answer, cs, pr, st) ==
    ArchitectPanelOf(i, answer, ReSearch(panel_pattern(i), answer),
                     cs, pr, st)

\* StoryService._create_fallback_panels(inputs), as far as the consistency
\* check and the narration read it
_create_fallback_panels(profile) ==
    [i \in 1..6 |->
        [panel_number |-> i,
         character_sheet |->
             Dict({<<<<"name">>,
                     IF profile.none THEN <<"Hero">> ELSE profile.nickname>>,
                   KV("personality", "determined and hopeful")}),
         prop_sheet |-> Dict({KV("lighting", "dynamic lighting")}),
         style_guide |-> Dict({KV("framing", "cinematic manga panel")}),
         dialogue_text |->
             <<"Panel ">> \o NumAtoms(i) \o <<": The journey of ">>
             \o NameOf(profile) \o <<" continues">>,
         emotional_tone |-> _determine_emotional_tone(i)]]

\* the parse of the three sheets went through: the six records
ArchitectPanels(answer, cs, pr, st) ==
    [i \in 1..6 |-> ArchitectPanel(i, answer, cs, pr, st)]

\* an exception in the parse gives the fallback panels of the profile
_parse_story_architect_response(answer, profile) ==
    LET cs == ArchitectSheet("CHARACTER_SHEET", answer)
        pr == ArchitectSheet("PROP_SHEET", answer)
        st == ArchitectSheet("STYLE_GUIDE", answer)
    IN  IF cs.raised \/ pr.raised \/ st.raised
        THEN _create_fallback_panels(profile)
        ELSE ArchitectPanels(answer, cs.sheet, pr.sheet, st.sheet)

\* the image prompt of _generate_image_prompts (the answer of the Visual
\* Artist or the fallback text), the static music and the TTS text
CombinedPanel(panel) ==
    [panel_number |-> panel.panel_number,
     character_sheet |-> panel.character_sheet,
     prop_sheet |-> panel.prop_sheet,
     style_guide |-> panel.style_guide,
     dialogue_text |-> panel.dialogue_text,
     emotional_tone |-> panel.emotional_tone,
     image_prompt |->
         <<"Manga panel ">> \o NumAtoms(panel.panel_number)
         \o <<" illustration">>,
     music_url |-> <<"/src/assets/audio/background-music.mp3">>,
     tts_text |-> panel.dialogue_text]

_combine_ai_responses(panels) ==
    [i \in 1..Len(panels) |-> CombinedPanel(panels[i])]

\* self.llm is None, or the model is there
PlanLlm == {"missing", "ready"}

InitPlan ==
    /\ pc = "idle"
    /\ IdleStream /\ IdleStory /\ IdleIo /\ IdlePanel /\ IdleSeq
    /\ IdleEnhance /\ IdleRetry /\ IdleValidate /\ IdleClock

\* generate_story_plan(inputs) is called
GSP_Call ==
    /\ pc = "idle"
    /\ inputs' \in Profiles
    /\ llm_mode' \in PlanLlm
    /\ plan_depth' = 1
    /\ pc' = "plan_entry"
    /\ UNCHANGED <<streamVars, panel_count, processed_panels, response,
                   ioVars, panelVars, remaining, basic_panels, elapsed,
                   enhanceVars, retryVars, validateVars, clockVars,
                   story_runs, extract_results, workflow, voice>>

\* `if self.llm is None:` the fallback plan is returned as it is
GSP_NoLlm ==
    /\ pc = "plan_entry"
    /\ llm_mode = "missing"
    /\ final_panels' = _create_fallback_panels(NoInputs)
    /\ pc' = "plan_returned"
    /\ UNCHANGED <<streamVars, storyVars, ioVars, panelVars, seqVars,
                   enhanceVars, retryVars, is_consistent, clockVars,
                   story_runs, extract_results, plan_depth, workflow, voice>>

\* the call of the model in _generate_story_structure raises on every
\* attempt of exponential_backoff_async: every activation raises in turn
GSP_StructureRaises ==
    /\ pc = "plan_entry"
    /\ llm_mode = "ready"
    /\ pc' = "plan_raised"
    /\ UNCHANGED <<streamVars, storyVars, ioVars, panelVars, seqVars,
                   enhanceVars, retryVars, validateVars, clockVars,
                   story_runs, extract_results, plan_depth, workflow, voice>>

\* the model answers: structure, image prompts, combination and the
\* consistency check of this activation
GSP_Validate ==
    /\ pc = "plan_entry"
    /\ llm_mode = "ready"
    /\ \E answer \in PlanAnswers :
          /\ llm_response' = answer
          /\ final_panels' =
                 _combine_ai_responses(
                     _parse_story_architect_response(answer, inputs))
    /\ is_consistent' = <<validate_story_consistency(final_panels')>>
    /\ pc' = IF validate_story_consistency(final_panels')
             THEN "plan_returned" ELSE "plan_regenerate"
    /\ UNCHANGED <<parser, stream_error, response_stream,
                   accumulated_full_text, yielded, storyVars, ioVars,
                   panelVars, seqVars, enhanceVars, retryVars, clockVars,
                   story_runs, extract_results, plan_depth, workflow, voice>>

\* a variant that tries again in place of calling itself
GSP_RegenerateInPlace ==
    /\ pc = "plan_regenerate"
    /\ pc' = "plan_entry"
    /\ UNCHANGED <<streamVars, storyVars, ioVars, panelVars, seqVars,
                   enhanceVars, retryVars, validateVars, clockVars,
                   story_runs, extract_results, plan_depth, workflow, voice>>

\* `return await self.generate_story_plan(inputs)`: one more activation, or
\* RecursionError once the stack is full, which every `except Exception:
\* raise` on the way up passes on
GSP_Regenerate ==
    /\ pc = "plan_regenerate"
    /\ IF plan_depth < RecursionLimit
       THEN /\ plan_depth' = plan_depth + 1
            /\ pc' = "plan_entry"
       ELSE /\ plan_depth' = plan_depth
            /\ pc' = "plan_recursion_error"
    /\ UNCHANGED <<streamVars, storyVars, ioVars, panelVars, seqVars,
                   enhanceVars, retryVars, validateVars, clockVars,
                   story_runs, extract_results, workflow, voice>>

NextPlan ==
    \/ GSP_Call
    \/ GSP_NoLlm
    \/ GSP_StructureRaises
    \/ GSP_Validate
    \/ GSP_Regenerate

SpecPlan == InitPlan /\ [][NextPlan]_vars

\* every step of the call is taken in the end: the model answers or raises
SpecPlanFair == SpecPlan /\ WF_vars(NextPlan)

PlanEnded == pc \in {"plan_returned", "plan_raised", "plan_recursion_error"}

WorkflowNodes ==
    <<"story_planning", "consistency_validator", "image_generation",
      "audio_generation", "final_assembly">>

\* the plans generate_story_plan returns: the fallback plan when there is no
\* model, else a plan that passed its consistency check
ReturnedPlans(profile) ==
    {_create_fallback_panels(NoInputs)}
    \cup {plan \in {_combine_ai_responses(
                        _parse_story_architect_response(answer, profile)) :
                    answer \in PlanAnswers} :
              validate_story_consistency(plan)}

\* the image URLs of the six panels, as generate_panel_images returns them
PanelImageUrls == [i \in 1..6 |-> <<"image_url_">> \o NumAtoms(i)]

\* a variant whose edges are unconditional
RouteOnward(node, state) ==
    CASE node = "story_planning" -> "consistency_validator"
      [] node = "consistency_validator" -> "image_generation"
      [] node = "image_generation" -> "audio_generation"
      [] node = "audio_generation" -> "final_assembly"
      [] OTHER -> "END"

\* the edges of create_manga_workflow: the node run after `node` for the
\* state that it returned
Route(node, state) ==
    IF node = "final_assembly" THEN "END"
    ELSE IF state.status = "error" THEN "END"
         ELSE CASE node = "story_planning" -> "consistency_validator"
                [] node = "consistency_validator" -> "image_generation"
                [] node = "image_generation" -> "audio_generation"
                [] node = "audio_generation" -> "final_assembly"

\* the except clause of a node
NodeError(state, text) == [state EXCEPT !.status = "error", !.error = text]

\* the node has run and returned state: the graph follows its edge
NodeDone(node, state) ==
    /\ workflow' = [workflow EXCEPT !.state = state,
                                    !.ran = Append(@, node),
                                    !.at = Route(node, state)]
    /\ UNCHANGED <<streamVars, pc, storyVars, ioVars, panelVars, seqVars,
                   enhanceVars, retryVars, validateVars, clockVars,
                   story_runs, extract_results, plan_depth, voice>>

InitWorkflow ==
    /\ pc = "idle"
    /\ IdleStream /\ IdleStory /\ IdleIo /\ IdlePanel /\ IdleSeq
    /\ IdleEnhance /\ IdleRetry /\ IdleValidate /\ IdleClock

\* generate_story: the initial state dict, and the graph starts at its
\* entry point
GS_Call ==
    /\ pc = "idle"
    /\ inputs' \in Profiles
    /\ workflow' =
           [state |-> [status |-> "pending", panels |-> <<>>,
                       image_urls |-> <<>>, error |-> "none"],
            ran |-> <<>>, at |-> "story_planning", result |-> "none"]
    /\ pc' = "workflow"
    /\ UNCHANGED <<streamVars, panel_count, processed_panels, response,
                   ioVars, panelVars, seqVars, enhanceVars, retryVars,
                   validateVars, clockVars, story_runs, extract_results,
                   plan_depth, voice>>

\* story_planning_node: generate_story_plan returns a plan or raises
story_planning_node ==
    /\ workflow.at = "story_planning"
    /\ \/ \E plan \in ReturnedPlans(inputs) :
             NodeDone("story_planning",
                      [workflow.state EXCEPT !.panels = plan,
                                             !.status = "story_planned"])
       \/ NodeDone("story_planning",
                   NodeError(workflow.state, "Story planning failed"))

\* the validator once the panels are there: a second plan when the first
\* one fails the check, an exception when the second fails it too or
\* generate_story_plan raises
ValidatedAfter(state, plan, raises) ==
    IF validate_story_consistency(state.panels)
    THEN [state EXCEPT !.status = "validated"]
    ELSE IF raises
         THEN NodeError(state, "Consistency validation failed")
         ELSE IF validate_story_consistency(plan)
              THEN [state EXCEPT !.panels = plan, !.status = "validated"]
              ELSE NodeError([state EXCEPT !.panels = plan],
                             "Consistency validation failed")

\* story_consistency_validator_node
story_consistency_validator_node ==
    /\ workflow.at = "consistency_validator"
    /\ IF workflow.state.panels = <<>>
       THEN NodeDone("consistency_validator",
                     NodeError(workflow.state,
                               "Consistency validation failed"))
       ELSE \E plan \in ReturnedPlans(inputs), raises \in BOOLEAN :
               NodeDone("consistency_validator",
                        ValidatedAfter(workflow.state, plan, raises))

\* image_generation_loop_node: generate_panel_images returns the URLs or
\* raises
image_generation_loop_node ==
    /\ workflow.at = "image_generation"
    /\ IF workflow.state.panels = <<>>
       THEN NodeDone("image_generation",
                     NodeError(workflow.state, "Image generation failed"))
       ELSE \/ NodeDone("image_generation",
                        [workflow.state EXCEPT
                            !.image_urls = PanelImageUrls,
                            !.status = "images_generated"])
            \/ NodeDone("image_generation",
                        NodeError(workflow.state, "Image generation failed"))

\* audio_generation_node: generate_all_audio returns or raises
audio_generation_node ==
    /\ workflow.at = "audio_generation"
    /\ IF workflow.state.panels = <<>>
       THEN NodeDone("audio_generation",
                     NodeError(workflow.state, "Audio generation failed"))
       ELSE \/ NodeDone("audio_generation",
                        [workflow.state EXCEPT !.status = "audio_generated"])
            \/ NodeDone("audio_generation",
                        NodeError(workflow.state, "Audio generation failed"))

\* final_assembly_node: GeneratedStory(...) is built or its validation
\* raises
final_assembly_node ==
    /\ workflow.at = "final_assembly"
    /\ \/ NodeDone("final_assembly",
                   [workflow.state EXCEPT !.status = "completed"])
       \/ NodeDone("final_assembly",
                   NodeError(workflow.state, "Final assembly failed"))

\* ainvoke has returned: generate_story returns the story or raises
GS_Return ==
    /\ pc = "workflow"
    /\ workflow.at = "END"
    /\ workflow' =
           [workflow EXCEPT !.result =
               IF workflow.state.status = "completed" THEN "story"
               ELSE "raised"]
    /\ pc' = "workflow_done"
    /\ UNCHANGED <<streamVars, storyVars, ioVars, panelVars, seqVars,
                   enhanceVars, retryVars, validateVars, clockVars,
                   story_runs, extract_results, plan_depth, voice>>

NextWorkflow ==
    \/ GS_Call
    \/ story_planning_node
    \/ story_consistency_validator_node
    \/ image_generation_loop_node
    \/ audio_generation_node
    \/ final_assembly_node
    \/ GS_Return

SpecWorkflow == InitWorkflow /\ [][NextWorkflow]_vars

\* the nodes run so far are the first nodes of the workflow, in its order
RanInOrder ==
    /\ Len(workflow.ran) <= Len(WorkflowNodes)
    /\ workflow.ran = SubSeq(WorkflowNodes, 1, Len(workflow.ran))

\* C33: the nodes of the workflow run only in the order story_planning,
\* consistency_validator, image_generation, audio_generation,
\* final_assembly; once a node has set status 'error' no later node runs and
\* the status stays 'error'; status 'completed' is reached only after all
\* five nodes ran without error, and generate_story returns a story in that
\* case only and raises otherwise.
C33_StageMachine ==
    /\ [](/\ RanInOrder
          /\ workflow.state.status = "error" => workflow.at = "END"
          /\ workflow.state.status = "completed" =>
                 workflow.ran = WorkflowNodes
          /\ workflow.result = "story" =>
                 workflow.state.status = "completed"
          /\ workflow.result = "raised" =>
                 workflow.state.status # "completed")
    /\ [][workflow.state.status = "error" =>
              /\ workflow'.state.status = "error"
              /\ workflow'.ran = workflow.ran]_vars

\* image generation failed after planning and validation, and
\* generate_story raised
C33_Witness ==
    /\ workflow.ran =
           <<"story_planning", "consistency_validator", "image_generation">>
    /\ workflow.state.status = "error"
    /\ workflow.result = "raised"

\* ------------------------------ specification of the shared voice fields
\* panel_processor is one object for the process (panel_processor.py:332):
\* every generation writes its user_age and user_gender into it and
\* _generate_panel_tts reads them when it calls generate_tts_audio. Two
\* generations run as coroutines of one event loop and interleave at their
\* awaits.

\* the panels of a story in this specification
VoicePanels == 2

VoiceParams ==
    [user_age : {16, 30}, user_gender : {"female", "male"}]

InitVoice ==
    /\ pc = "idle"
    /\ IdleStream /\ IdleStory /\ IdleIo /\ IdlePanel /\ IdleSeq
    /\ IdleEnhance /\ IdleRetry /\ IdleValidate /\ IdleClock

VoiceUnchanged ==
    UNCHANGED <<streamVars, pc, storyVars, ioVars, panelVars, seqVars,
                enhanceVars, retryVars, validateVars, clockVars, story_runs,
                extract_results, plan_depth, workflow>>

Called(s, mode, p) ==
    [mode |-> mode, user_age |-> p.user_age, user_gender |-> p.user_gender,
     pending |-> 1..VoicePanels, current |-> 0]

\* generate_sequential_story of story s, up to the two assignments it makes
\* once for all its panels
VS_SequentialCall(s) ==
    /\ voice.stories[s].mode = "none"
    /\ \E p \in VoiceParams :
          voice' = [voice EXCEPT !.processor = p,
                                 !.stories[s] = Called(s, "sequential", p)]
    /\ VoiceUnchanged

\* generate_streaming_story of story s, up to the call of
\* process_panels_streaming
VS_StreamingCall(s) ==
    /\ voice.stories[s].mode = "none"
    /\ \E p \in VoiceParams :
          voice' = [voice EXCEPT !.stories[s] = Called(s, "streaming", p)]
    /\ VoiceUnchanged

\* one pass of the async for of process_panels_streaming, up to the first
\* await of process_panel: the two assignments for the panel
VS_StreamNext(s) ==
    LET st == voice.stories[s]
    IN  /\ st.mode = "streaming"
        /\ st.current = 0
        /\ st.pending # {}
        /\ voice' =
              [voice EXCEPT
                  !.processor = [user_age |-> st.user_age,
                                 user_gender |-> st.user_gender],
                  !.stories[s].current =
                      CHOOSE n \in st.pending : \A m \in st.pending : n <= m]
        /\ VoiceUnchanged

\* the panels of story s whose _generate_panel_tts may run now: the panel in
\* process in streaming mode; panel 1 and then the other ones in any order in
\* sequential mode
TtsReady(s) ==
    LET st == voice.stories[s]
    IN  CASE st.mode = "streaming" -> {st.current} \cap st.pending
          [] st.mode = "sequential" ->
                 IF 1 \in st.pending THEN {1} ELSE st.pending
          [] OTHER -> {}

\* what _generate_panel_tts calls generate_tts_audio with: the fields of the
\* processor at the time of the call
VoiceCall(s, n) ==
    [story |-> s, panel_number |-> n,
     user_age |-> voice.processor.user_age,
     user_gender |-> voice.processor.user_gender]

\* _generate_panel_tts of panel n of story s, from the return of its first
\* emit to the call of generate_tts_audio
VS_Tts(s, n) ==
    /\ n \in TtsReady(s)
    /\ voice' = [voice EXCEPT
                    !.tts_calls = Append(@, VoiceCall(s, n)),
                    !.stories[s].pending = @ \ {n},
                    !.stories[s].current = 0]
    /\ VoiceUnchanged

NextVoice ==
    \/ \E s \in VoiceStories : VS_SequentialCall(s)
    \/ \E s \in VoiceStories : VS_StreamingCall(s)
    \/ \E s \in VoiceStories : VS_StreamNext(s)
    \/ \E s \in VoiceStories, n \in 1..VoicePanels : VS_Tts(s, n)

SpecVoice == InitVoice /\ [][NextVoice]_vars

\* C37: the narration of every panel of a story is synthesized with the
\* user_age and user_gender passed for that story, also when two story
\* generations are interleaved on the shared PanelProcessor.
C37_OwnVoice ==
    \A i \in 1..Len(voice.tts_calls) :
        LET c == voice.tts_calls[i]
        IN  /\ c.user_age = voice.stories[c.story].user_age
            /\ c.user_gender = voice.stories[c.story].user_gender

\* the same for a generation that runs alone
C37_OwnVoiceAlone ==
    (\E s \in VoiceStories : voice.stories[s].mode = "none") => C37_OwnVoice

\* the same for two generations in streaming mode
C37_OwnVoiceStreaming ==
    (\A s \in VoiceStories : voice.stories[s].mode \in {"none", "streaming"})
        => C37_OwnVoice

====
